---- MODULE Spec2Model ----
(***************************************************************************)
(* Model of the eBayClone GraphQL API: the in-memory DataStore, the        *)
(* validation and auth helpers, and the resolvers that orchestrate them.   *)
(*                                                                         *)
(* JavaScript values are modelled as tagged records so that the dynamic    *)
(* checks of the code (=== undefined, truthiness, Number.isInteger) can be *)
(* computed as the code computes them:                                     *)
(*   Undefined, Null          the two JS "nothing" values                  *)
(*   Str(<<"a","b">>)         a string, as its sequence of characters      *)
(*   Num(n)                   an integer-valued number (ids, quantities);  *)
(*                            money is an integer number of cents          *)
(*   Frac(n, d)               a non-integer number n/d                     *)
(*   Arr(<<...>>)             an array                                     *)
(*   Date(t)                  an ISO timestamp taken at clock value t      *)
(*   Enum("PENDING")          a value of a GraphQL enum                    *)
(* A JS object is a TLA+ record; a property that is absent is a field that *)
(* is not in the record's DOMAIN.                                          *)
(***************************************************************************)
EXTENDS Integers, Sequences, FiniteSets, TLC

\* ------------------------------------------------------------------ bounds
MaxSteps == 5        \* steps that change the store, the clock or the set of
                     \* suspended requests; steps that only answer are not counted
MaxInflight == 2     \* requests suspended at an await at the same time
MaxId == 3           \* the ids clients name in their requests are 1..MaxId

\* ------------------------------------------------------------- JS values
Undefined == [undefined |-> TRUE]
Null == [null |-> TRUE]
Str(s) == [str |-> s]
Num(n) == [num |-> n]
Frac(n, d) == [frac |-> <<n, d>>]
Arr(a) == [arr |-> a]
Date(t) == [date |-> t]
Enum(name) == [enum |-> name]
EmptyString == Str(<<>>)

\* obj.key
Get(obj, key) == IF key \in DOMAIN obj THEN obj[key] ELSE Undefined

\* { ...a, ...b }
Merge(a, b) == [k \in DOMAIN a \cup DOMAIN b |-> IF k \in DOMAIN b THEN b[k] ELSE a[k]]

\* A rest pattern that keeps the named key.
Without_Keeping(obj, key) == obj

\* const { key, ...rest } = obj
Without(obj, key) == [k \in DOMAIN obj \ {key} |-> obj[k]]

\* JS truthiness of a value
Truthy(v) == v \notin {Undefined, Null, EmptyString, Num(0)}

IsStr(v) == DOMAIN v = {"str"}
IsNum(v) == DOMAIN v = {"num"}

\* ---------------------------------------------------------- string data
JohnDoe == Str(<<"j", "o", "h", "n", "_", "d", "o", "e">>)
JaneSmith == Str(<<"j", "a", "n", "e", "_", "s", "m", "i", "t", "h">>)
JohnEmail == Str(<<"j", "o", "h", "n", "@", "e", "x", "a", "m", "p", "l", "e", ".", "c", "o", "m">>)
JaneEmail == Str(<<"j", "a", "n", "e", "@", "e", "x", "a", "m", "p", "l", "e", ".", "c", "o", "m">>)
PasswordText == Str(<<"p", "a", "s", "s", "w", "o", "r", "d">>)
BobName == Str(<<"b", "o", "b">>)
AbName == Str(<<"a", "b">>)
NewEmail == Str(<<"a", "@", "b", ".", "c">>)
BadEmail == Str(<<"a", "@", "b">>)
SecretText == Str(<<"s", "e", "c", "r", "e", "t">>)
ShortText == Str(<<"s", "h", "o", "r", "t">>)

IPhoneTitle == Str(<<"i", "P", "h", "o", "n", "e", " ", "1", "3", " ", "P", "r", "o", " ", "M", "a", "x">>)
IPhoneDescription == Str(<<"B", "r", "a", "n", "d", " ", "n", "e", "w", ",", " ", "s", "t", "i", "l", "l", " ", "i", "n", " ", "b", "o", "x">>)
GuitarTitle == Str(<<"V", "i", "n", "t", "a", "g", "e", " ", "G", "u", "i", "t", "a", "r">>)
GuitarDescription == Str(<<"C", "l", "a", "s", "s", "i", "c", " ", "a", "c", "o", "u", "s", "t", "i", "c", " ", "g", "u", "i", "t", "a", "r", " ", "i", "n", " ", "e", "x", "c", "e", "l", "l", "e", "n", "t", " ", "c", "o", "n", "d", "i", "t", "i", "o", "n">>)
Electronics == Str(<<"e", "l", "e", "c", "t", "r", "o", "n", "i", "c", "s">>)
Music == Str(<<"m", "u", "s", "i", "c">>)
NewYork == Str(<<"N", "e", "w", " ", "Y", "o", "r", "k", ",", " ", "N", "Y">>)
LosAngeles == Str(<<"L", "o", "s", " ", "A", "n", "g", "e", "l", "e", "s", ",", " ", "C", "A">>)
IPhone1Jpg == Str(<<"i", "p", "h", "o", "n", "e", "1", ".", "j", "p", "g">>)
IPhone2Jpg == Str(<<"i", "p", "h", "o", "n", "e", "2", ".", "j", "p", "g">>)
Guitar1Jpg == Str(<<"g", "u", "i", "t", "a", "r", "1", ".", "j", "p", "g">>)
MainSt == Str(<<"1", "2", "3", " ", "M", "a", "i", "n", " ", "S", "t">>)
NewYorkCity == Str(<<"N", "e", "w", " ", "Y", "o", "r", "k">>)
NY == Str(<<"N", "Y">>)
Zip10001 == Str(<<"1", "0", "0", "0", "1">>)
USA == Str(<<"U", "S", "A">>)
After5PM == Str(<<"P", "l", "e", "a", "s", "e", " ", "d", "e", "l", "i", "v", "e", "r", " ", "a", "f", "t", "e", "r", " ", "5", " ", "P", "M">>)

Whitespace == {" ", "\t", "\n", "\r"}

\* A message is a template literal: the sequence of its parts.
Msg(text) == <<text>>

\* ------------------------------------------------------------ GraphQLError
GraphQLError(message, code, details) ==
    [message |-> message, extensions |-> [code |-> code, details |-> details]]

\* A TypeError thrown by the runtime: an error without extensions.
TypeError(message) == [message |-> message, extensions |-> [none |-> TRUE]]

\* details given as a text that embeds an id
IdDetails(text, id) == [text |-> text, id |-> id]
Details(text) == [text |-> text]
FieldDetails(field, message) == [field |-> field, message |-> message]

\* error.extensions?.code || 'INTERNAL_ERROR', and likewise the details: the
\* codes and details the resolvers set are never falsy, so `||` falls back
\* exactly when the property is absent.
formatError(error) ==
    [message |-> error.message,
     code |-> IF "code" \in DOMAIN error.extensions THEN error.extensions.code
              ELSE "INTERNAL_ERROR",
     details |-> IF "details" \in DOMAIN error.extensions THEN error.extensions.details
                 ELSE Null]

\* The first error thrown by a sequence of checks, each either an error or
\* Null (the check returned normally).
FirstThrown(checks) ==
    IF \E i \in DOMAIN checks : checks[i] # Null
    THEN checks[CHOOSE i \in DOMAIN checks :
                   checks[i] # Null /\ \A j \in DOMAIN checks : j < i => checks[j] = Null]
    ELSE Null

\* -------------------------------------------------------------- validation
\* /^[^\s@]+@[^\s@]+\.[^\s@]+$/.test(email)
EmailRegexTest(email) ==
    /\ IsStr(email)
    /\ LET s == email.str
       IN /\ \A i \in DOMAIN s : s[i] \notin Whitespace
          /\ Cardinality({i \in DOMAIN s : s[i] = "@"}) = 1
          /\ \E a \in DOMAIN s :
                /\ s[a] = "@"
                /\ a > 1
                /\ \E d \in DOMAIN s : s[d] = "." /\ d > a + 1 /\ d < Len(s)

validateEmail(email) ==
    IF ~EmailRegexTest(email)
    THEN GraphQLError(Msg("Invalid email format"), "VALIDATION_ERROR",
                      FieldDetails("email", Msg("Email format is invalid")))
    ELSE Null

validatePassword(password) ==
    IF ~Truthy(password) \/ Len(password.str) < 6
    THEN GraphQLError(Msg("Password must be at least 6 characters long"), "VALIDATION_ERROR",
                      FieldDetails("password", Msg("Password must be at least 6 characters long")))
    ELSE Null

validateUsername(username) ==
    IF ~Truthy(username) \/ Len(username.str) < 3
    THEN GraphQLError(Msg("Username must be at least 3 characters long"), "VALIDATION_ERROR",
                      FieldDetails("username", Msg("Username must be at least 3 characters long")))
    ELSE Null

\* validatePrice letting a price of zero pass.
validatePrice_Negative(price) ==
    IF (IsNum(price) /\ price.num < 0) \/ price = Null
    THEN GraphQLError(Msg("Price must be greater than 0"), "VALIDATION_ERROR",
                      FieldDetails("price", Msg("Price must be greater than 0")))
    ELSE Null

\* price <= 0: true of a number that is not positive and of null (which
\* compares as 0), false of undefined (which compares as NaN).
validatePrice(price) ==
    IF (IsNum(price) /\ price.num <= 0) \/ price = Null
    THEN GraphQLError(Msg("Price must be greater than 0"), "VALIDATION_ERROR",
                      FieldDetails("price", Msg("Price must be greater than 0")))
    ELSE Null

\* validateQuantity letting every quantity pass.
validateQuantity_Never(quantity) == Null

validateQuantity(quantity) ==
    IF ~IsNum(quantity) \/ quantity.num <= 0
    THEN GraphQLError(Msg("Quantity must be a positive integer"), "VALIDATION_ERROR",
                      FieldDetails("quantity", Msg("Quantity must be a positive integer")))
    ELSE Null

validStatuses == <<"PENDING", "CONFIRMED", "SHIPPED", "DELIVERED", "CANCELLED">>

validateOrderStatus(status) ==
    IF ~\E i \in DOMAIN validStatuses : Enum(validStatuses[i]) = status
    THEN GraphQLError(Msg("Invalid status. Must be: PENDING, CONFIRMED, SHIPPED, DELIVERED, CANCELLED"),
                      "VALIDATION_ERROR",
                      FieldDetails("status", Msg("Invalid status. Must be: PENDING, CONFIRMED, SHIPPED, DELIVERED, CANCELLED")))
    ELSE Null

validateRequired(value, fieldName) ==
    IF value = Undefined \/ value = Null \/ value = EmptyString
    THEN GraphQLError(<<fieldName, " is required">>, "VALIDATION_ERROR",
                      FieldDetails(fieldName, <<fieldName, " is required">>))
    ELSE Null

\* ------------------------------------------------------------------- bcrypt
\* bcrypt.hash(password, 10): a string that starts with the algorithm
\* marker, so it differs from every plaintext; the salt is not modelled.
bcryptHash(password) == Str(<<"$2a$10$">> \o password.str)

\* bcrypt.compare(password, hash)
bcryptCompare(password, hash) == hash = bcryptHash(password)

\* ---------------------------------------------------------------- state
VARIABLES
    users,          \* DataStore.users
    listings,       \* DataStore.listings
    orders,         \* DataStore.orders
    sessions,       \* DataStore.sessions
    nextUserId,     \* DataStore.nextUserId
    nextListingId,  \* DataStore.nextListingId
    nextOrderId,    \* DataStore.nextOrderId
    now,            \* the wall clock, in hours
    issued,         \* the tokens login has returned (what clients can present)
    inflight,       \* per slot: a request suspended at an await, or Idle
    response,       \* what the latest step sent back, NoResponse if nothing
    steps           \* how many counted steps were taken (bounds the exploration)

store == <<users, listings, orders, sessions, nextUserId, nextListingId, nextOrderId>>
vars == <<users, listings, orders, sessions, nextUserId, nextListingId, nextOrderId,
          now, issued, inflight, response, steps>>

Idle == [op |-> "idle"]
NoResponse == [op |-> "none"]
Slots == 1..MaxInflight

\* ------------------------------------------------------------------- auth
JWT_SECRET == "your-secret-key"
TokenTTL == 24   \* expiresIn: '24h'

\* jwt.sign(payload, secret, { expiresIn })
jwtSign(payload, secret, expiresIn) ==
    [payload |-> Merge(payload, [iat |-> now, exp |-> now + expiresIn]), sig |-> secret]

\* jwt.verify(token, secret): the payload, or Null when it throws
jwtVerify(token, secret) ==
    IF Get(token, "sig") = secret /\ now < token.payload.exp THEN token.payload ELSE Null

generateToken(user) ==
    jwtSign([id |-> Get(user, "id"), email |-> Get(user, "email"), username |-> Get(user, "username")],
            JWT_SECRET, TokenTTL)

\* A credential that was not signed with the server's secret.
ForgedToken == [payload |-> [id |-> Num(1), email |-> JohnEmail, username |-> JohnDoe,
                             iat |-> 0, exp |-> TokenTTL],
                sig |-> "not-the-secret"]

\* createContext accepting only a token of the session set.
createContext_InSession(header) ==
    [user |-> IF Truthy(header) /\ header \in sessions THEN jwtVerify(header, JWT_SECRET) ELSE Null,
     token |-> header,
     JWT_SECRET |-> JWT_SECRET]

\* createContext({ req }); header is the token of the authorization header,
\* Undefined when the header is absent.
createContext(header) ==
    [user |-> IF Truthy(header) THEN jwtVerify(header, JWT_SECRET) ELSE Null,
     token |-> header,
     JWT_SECRET |-> JWT_SECRET]

\* requireAuth looking at the header instead of the verified user.
requireAuth_ByToken(context) ==
    IF ~Truthy(context.token)
    THEN GraphQLError(Msg("Authentication required"), "UNAUTHENTICATED",
                      Details("You must be logged in to perform this action"))
    ELSE Null

requireAuth(context) ==
    IF ~Truthy(context.user)
    THEN GraphQLError(Msg("Authentication required"), "UNAUTHENTICATED",
                      Details("You must be logged in to perform this action"))
    ELSE Null

\* requireOwnership that stops at the authentication check.
requireOwnership_AuthOnly(context, resourceUserId) == requireAuth(context)

requireOwnership(context, resourceUserId) ==
    FirstThrown(<<requireAuth(context),
                  IF Get(context.user, "id") # resourceUserId
                  THEN GraphQLError(Msg("Access denied"), "FORBIDDEN",
                                    Details("You can only access your own resources"))
                  ELSE Null>>)

\* -------------------------------------------------------------- DataStore
\* array.findIndex(pred): 0 stands for -1
FindIndex(array, Pred(_)) ==
    IF \E i \in DOMAIN array : Pred(array[i])
    THEN CHOOSE i \in DOMAIN array : Pred(array[i]) /\ \A j \in 1..(i - 1) : ~Pred(array[j])
    ELSE 0

\* array.find(pred)
Find(array, Pred(_)) ==
    LET i == FindIndex(array, Pred) IN IF i = 0 THEN Undefined ELSE array[i]

\* splice taking out the last element, whatever the index.
Splice_Last(array, index) == SubSeq(array, 1, Len(array) - 1)

\* array.splice(index, 1)
Splice(array, index) ==
    [i \in 1..(Len(array) - 1) |-> IF i < index THEN array[i] ELSE array[i + 1]]

Stamps == [createdAt |-> Date(now), updatedAt |-> Date(now)]

SeedPasswordHash == bcryptHash(PasswordText)

\* createUser numbering the new user by the size of the collection.
DataStore_createUser_IdFromLength(userData) ==
    LET user == Merge(Merge([id |-> Num(Len(users) + 1)], userData), Stamps)
    IN [users |-> Append(users, user), nextUserId |-> nextUserId + 1, ret |-> user]

DataStore_createUser(userData) ==
    LET user == Merge(Merge([id |-> Num(nextUserId)], userData), Stamps)
    IN [users |-> Append(users, user), nextUserId |-> nextUserId + 1, ret |-> user]

getUserById(id) == LET P(user) == user.id = id IN Find(users, P)

\* getUserByEmail matching the username field.
getUserByEmail_ByUsername(email) ==
    LET P(user) == Get(user, "username") = email IN Find(users, P)

getUserByEmail(email) == LET P(user) == Get(user, "email") = email IN Find(users, P)

DataStore_updateUser(id, updates) ==
    LET P(user) == user.id = id
        userIndex == FindIndex(users, P)
    IN IF userIndex = 0 THEN [users |-> users, ret |-> Null]
       ELSE LET merged == Merge(Merge(users[userIndex], updates), [updatedAt |-> Date(now)])
            IN [users |-> [users EXCEPT ![userIndex] = merged], ret |-> merged]

DataStore_deleteUser(id) ==
    LET P(user) == user.id = id
        userIndex == FindIndex(users, P)
    IN IF userIndex = 0 THEN [users |-> users, ret |-> FALSE]
       ELSE [users |-> Splice(users, userIndex), ret |-> TRUE]

\* addSession keeping the set as it is.
addSession_Never(token) == sessions

addSession(token) == sessions \cup {token}
removeSession(token) == sessions \ {token}
isValidSession(token) == token \in sessions

\* ------------------------------------------------- DataStore: listings
UpperCase == <<"A", "B", "C", "D", "E", "F", "G", "H", "I", "J", "K", "L", "M", "N", "O", "P", "Q", "R", "S", "T", "U", "V", "W", "X", "Y", "Z">>
LowerCase == <<"a", "b", "c", "d", "e", "f", "g", "h", "i", "j", "k", "l", "m", "n", "o", "p", "q", "r", "s", "t", "u", "v", "w", "x", "y", "z">>

\* string.toLowerCase(), on the character sequence
ToLowerCase(s) ==
    [i \in DOMAIN s |->
        IF \E k \in DOMAIN UpperCase : UpperCase[k] = s[i]
        THEN LowerCase[CHOOSE k \in DOMAIN UpperCase : UpperCase[k] = s[i]]
        ELSE s[i]]

\* string.includes(term), on character sequences
Includes(s, term) ==
    \E i \in 0..(Len(s) - Len(term)) : SubSeq(s, i + 1, i + Len(term)) = term

\* array.filter(pred)
Filter(array, Pred(_)) == SelectSeq(array, Pred)

\* createListing numbering the new listing by the size of the collection.
DataStore_createListing_IdFromLength(listingData) ==
    LET listing == Merge(Merge([id |-> Num(Len(listings) + 1)], listingData), Stamps)
    IN [listings |-> Append(listings, listing), nextListingId |-> nextListingId + 1, ret |-> listing]

DataStore_createListing(listingData) ==
    LET listing == Merge(Merge([id |-> Num(nextListingId)], listingData), Stamps)
    IN [listings |-> Append(listings, listing), nextListingId |-> nextListingId + 1, ret |-> listing]

getListingById(id) == LET P(listing) == listing.id = id IN Find(listings, P)

\* getListings with priceMax as an exclusive bound.
getListings_PriceMaxExclusive(filter) ==
    LET BySearch(listing) ==
            LET searchTerm == ToLowerCase(filter.search.str)
            IN \/ Includes(ToLowerCase(listing.title.str), searchTerm)
               \/ Includes(ToLowerCase(listing.description.str), searchTerm)
        ByPriceMin(listing) == listing.price.num >= filter.priceMin.num
        ByPriceMax(listing) == listing.price.num < filter.priceMax.num
        ByCategory(listing) == listing.category = filter.category
        ByCondition(listing) == listing.condition = filter.condition
        f0 == listings
        f1 == IF Truthy(Get(filter, "search")) THEN Filter(f0, BySearch) ELSE f0
        f2 == IF Get(filter, "priceMin") # Undefined THEN Filter(f1, ByPriceMin) ELSE f1
        f3 == IF Get(filter, "priceMax") # Undefined THEN Filter(f2, ByPriceMax) ELSE f2
        f4 == IF Truthy(Get(filter, "category")) THEN Filter(f3, ByCategory) ELSE f3
        f5 == IF Truthy(Get(filter, "condition")) THEN Filter(f4, ByCondition) ELSE f4
    IN f5

getListings(filter) ==
    LET BySearch(listing) ==
            LET searchTerm == ToLowerCase(filter.search.str)
            IN \/ Includes(ToLowerCase(listing.title.str), searchTerm)
               \/ Includes(ToLowerCase(listing.description.str), searchTerm)
        ByPriceMin(listing) == listing.price.num >= filter.priceMin.num
        ByPriceMax(listing) == listing.price.num <= filter.priceMax.num
        ByCategory(listing) == listing.category = filter.category
        ByCondition(listing) == listing.condition = filter.condition
        f0 == listings
        f1 == IF Truthy(Get(filter, "search")) THEN Filter(f0, BySearch) ELSE f0
        f2 == IF Get(filter, "priceMin") # Undefined THEN Filter(f1, ByPriceMin) ELSE f1
        f3 == IF Get(filter, "priceMax") # Undefined THEN Filter(f2, ByPriceMax) ELSE f2
        f4 == IF Truthy(Get(filter, "category")) THEN Filter(f3, ByCategory) ELSE f3
        f5 == IF Truthy(Get(filter, "condition")) THEN Filter(f4, ByCondition) ELSE f4
    IN f5

DataStore_updateListing(id, updates) ==
    LET P(listing) == listing.id = id
        listingIndex == FindIndex(listings, P)
    IN IF listingIndex = 0 THEN [listings |-> listings, ret |-> Null]
       ELSE LET merged == Merge(Merge(listings[listingIndex], updates), [updatedAt |-> Date(now)])
            IN [listings |-> [listings EXCEPT ![listingIndex] = merged], ret |-> merged]

DataStore_deleteListing(id) ==
    LET P(listing) == listing.id = id
        listingIndex == FindIndex(listings, P)
    IN IF listingIndex = 0 THEN [listings |-> listings, ret |-> FALSE]
       ELSE [listings |-> Splice(listings, listingIndex), ret |-> TRUE]

\* --------------------------------------------------- DataStore: orders
DataStore_createOrder(orderData) ==
    LET order == Merge(Merge(Merge([id |-> Num(nextOrderId)], orderData),
                             [status |-> Enum("PENDING")]), Stamps)
    IN [orders |-> Append(orders, order), nextOrderId |-> nextOrderId + 1, ret |-> order]

getOrderById(id) == LET P(order) == order.id = id IN Find(orders, P)

Max(a, b) == IF a > b THEN a ELSE b
Min(a, b) == IF a < b THEN a ELSE b

\* array.slice(start, end); a negative index counts from the end
ArraySlice(array, start, end) ==
    LET len == Len(array)
        from == IF start < 0 THEN Max(len + start, 0) ELSE Min(start, len)
        to == IF end < 0 THEN Max(len + end, 0) ELSE Min(end, len)
    IN SubSeq(array, from + 1, to)

\* The number of pages rounded down.
CeilDiv_Floor(a, b) == a \div b

\* Math.ceil(a / b) for a >= 0 and b >= 1
CeilDiv(a, b) == (a + b - 1) \div b

DefaultPagination == [page |-> Num(1), limit |-> Num(10)]

\* getOrders without the filter on the owner.
getOrders_AllUsers(filter, pagination) ==
    LET ByStatus(order) == order.status = filter.status
        f0 == orders
        f1 == f0
        filteredOrders == IF Truthy(Get(filter, "status")) THEN Filter(f1, ByStatus) ELSE f1
        total == Len(filteredOrders)
        pages == CeilDiv(total, pagination.limit.num)
        offset == (pagination.page.num - 1) * pagination.limit.num
        paginatedOrders == ArraySlice(filteredOrders, offset, offset + pagination.limit.num)
    IN [orders |-> Arr(paginatedOrders),
        pagination |-> [total |-> Num(total),
                        pages |-> Num(pages),
                        currentPage |-> pagination.page,
                        hasNextPage |-> pagination.page.num < pages,
                        hasPreviousPage |-> pagination.page.num > 1]]

getOrders(filter, pagination) ==
    LET ByUser(order) == order.userId = filter.userId
        ByStatus(order) == order.status = filter.status
        f0 == orders
        f1 == IF Truthy(Get(filter, "userId")) THEN Filter(f0, ByUser) ELSE f0
        filteredOrders == IF Truthy(Get(filter, "status")) THEN Filter(f1, ByStatus) ELSE f1
        total == Len(filteredOrders)
        pages == CeilDiv(total, pagination.limit.num)
        offset == (pagination.page.num - 1) * pagination.limit.num
        paginatedOrders == ArraySlice(filteredOrders, offset, offset + pagination.limit.num)
    IN [orders |-> Arr(paginatedOrders),
        pagination |-> [total |-> Num(total),
                        pages |-> Num(pages),
                        currentPage |-> pagination.page,
                        hasNextPage |-> pagination.page.num < pages,
                        hasPreviousPage |-> pagination.page.num > 1]]

DataStore_updateOrder(id, updates) ==
    LET P(order) == order.id = id
        orderIndex == FindIndex(orders, P)
    IN IF orderIndex = 0 THEN [orders |-> orders, ret |-> Null]
       ELSE LET merged == Merge(Merge(orders[orderIndex], updates), [updatedAt |-> Date(now)])
            IN [orders |-> [orders EXCEPT ![orderIndex] = merged], ret |-> merged]

DataStore_deleteOrder(id) ==
    LET P(order) == order.id = id
        orderIndex == FindIndex(orders, P)
    IN IF orderIndex = 0 THEN [orders |-> orders, ret |-> FALSE]
       ELSE [orders |-> Splice(orders, orderIndex), ret |-> TRUE]

NoReasonProvided == Str(<<"N", "o", " ", "r", "e", "a", "s", "o", "n", " ", "p", "r", "o", "v", "i", "d", "e", "d">>)

\* cancelOrder writing the status alone.
DataStore_cancelOrder_StatusOnly(id, cancelReason) ==
    LET P(order) == order.id = id
        orderIndex == FindIndex(orders, P)
    IN IF orderIndex = 0 THEN [orders |-> orders, ret |-> Null]
       ELSE LET merged == Merge(orders[orderIndex], [status |-> Enum("CANCELLED")])
            IN [orders |-> [orders EXCEPT ![orderIndex] = merged], ret |-> merged]

DataStore_cancelOrder(id, cancelReason) ==
    LET P(order) == order.id = id
        orderIndex == FindIndex(orders, P)
    IN IF orderIndex = 0 THEN [orders |-> orders, ret |-> Null]
       ELSE LET merged == Merge(orders[orderIndex],
                                [status |-> Enum("CANCELLED"),
                                 cancelledAt |-> Date(now),
                                 cancelReason |-> IF Truthy(cancelReason) THEN cancelReason
                                                  ELSE NoReasonProvided,
                                 updatedAt |-> Date(now)])
            IN [orders |-> [orders EXCEPT ![orderIndex] = merged], ret |-> merged]

DataStore_updateOrderStatus(id, status) ==
    LET P(order) == order.id = id
        orderIndex == FindIndex(orders, P)
    IN IF orderIndex = 0 THEN [orders |-> orders, ret |-> Null]
       ELSE LET merged == Merge(orders[orderIndex], [status |-> status, updatedAt |-> Date(now)])
            IN [orders |-> [orders EXCEPT ![orderIndex] = merged], ret |-> merged]

\* ------------------------------------------------------------ sample data
\* initializeSampleData(); it runs in the constructor, at clock value 0.
SeedUsers ==
    <<[id |-> Num(1), username |-> JohnDoe, email |-> JohnEmail, password |-> SeedPasswordHash],
      [id |-> Num(2), username |-> JaneSmith, email |-> JaneEmail, password |-> SeedPasswordHash]>>

SeedListings ==
    <<[id |-> Num(1), title |-> IPhoneTitle, description |-> IPhoneDescription,
       price |-> Num(99999), category |-> Electronics, condition |-> Enum("NEW"),
       location |-> NewYork, images |-> Arr(<<IPhone1Jpg, IPhone2Jpg>>), userId |-> Num(1),
       createdAt |-> Date(0), updatedAt |-> Date(0)],
      [id |-> Num(2), title |-> GuitarTitle, description |-> GuitarDescription,
       price |-> Num(45000), category |-> Music, condition |-> Enum("GOOD"),
       location |-> LosAngeles, images |-> Arr(<<Guitar1Jpg>>), userId |-> Num(2),
       createdAt |-> Date(0), updatedAt |-> Date(0)]>>

SeedAddress ==
    [street |-> MainSt, city |-> NewYorkCity, state |-> NY, zipCode |-> Zip10001, country |-> USA]

SeedOrders ==
    <<[id |-> Num(1), userId |-> Num(2), listingId |-> Num(1), quantity |-> Num(1),
       totalPrice |-> Num(99999), status |-> Enum("PENDING"), shippingAddress |-> SeedAddress,
       buyerNotes |-> After5PM, createdAt |-> Date(0), updatedAt |-> Date(0)]>>

Init ==
    /\ users = SeedUsers
    /\ listings = SeedListings
    /\ orders = SeedOrders
    /\ sessions = {}
    /\ nextUserId = 3
    /\ nextListingId = 3
    /\ nextOrderId = 2
    /\ now = 0
    /\ issued = {}
    /\ inflight = [s \in Slots |-> Idle]
    /\ response = NoResponse
    /\ steps = 0

\* ------------------------------------------------------ request plumbing
\* The response of a resolver that threw `thrown`, or returned `data`.
Response(op, args, context, thrown, data) ==
    [op |-> op, args |-> args, user |-> context.user,
     error |-> IF thrown # Null THEN formatError(thrown) ELSE Null,
     data |-> IF thrown # Null THEN Null ELSE data]

\* The event loop runs one task at a time: a task starts only after the
\* response of the previous one has been handed to the transport.
Ready == response = NoResponse

\* A step that changes more than the response is counted.
Counted == steps < MaxSteps /\ steps' = steps + 1
Free == steps' = steps

\* The transport sends the formatted response.
Deliver ==
    /\ response # NoResponse
    /\ response' = NoResponse
    /\ UNCHANGED <<store, now, issued, inflight, steps>>

HasFreeSlot == \E s \in Slots : inflight[s] = Idle
FreeSlot == CHOOSE s \in Slots : inflight[s] = Idle /\ \A r \in Slots : r < s => inflight[r] # Idle

\* What a resolver still reads of its context after an await: the caller.
Kept(context) == [user |-> context.user]

\* The resolver reaches an await: its locals are kept until it resumes.
Suspend(request) ==
    /\ HasFreeSlot
    /\ Counted
    /\ inflight' = [inflight EXCEPT ![FreeSlot] = request]
    /\ response' = NoResponse

\* What a client can put in the authorization header.
Headers == {Undefined} \cup issued

\* Hours that pass in one Tick: half the lifetime of a token.
ClockStep == TokenTTL \div 2

Tick ==
    /\ Ready
    /\ Counted
    /\ now' = now + ClockStep
    /\ response' = NoResponse
    /\ UNCHANGED <<store, issued, inflight>>

\* ---------------------------------------------------------- userResolvers
\* The error of a missing entity reported as a refusal.
NotFound_AsForbidden(kind, id) ==
    GraphQLError(Msg("Access denied"), "FORBIDDEN", Details("You can only access your own resources"))

NotFound(kind, id) ==
    GraphQLError(<<kind, " not found">>, "NOT_FOUND",
                 IdDetails(<<kind, " with ID ", " does not exist">>, id))

EmailExists ==
    GraphQLError(Msg("Email already exists"), "CONFLICT",
                 FieldDetails("email", Msg("A user with this email already exists")))

\* Query.user
user(header, id) ==
    /\ Ready
    /\ LET context == createContext(header)
           found == getUserById(id)
           thrown == IF ~Truthy(found) THEN NotFound("User", id) ELSE Null
       IN /\ response' = Response("user", [id |-> id], context, thrown, Without(found, "password"))
          /\ UNCHANGED <<store, now, issued, inflight, steps>>

\* Mutation.createUser up to `await bcrypt.hash(password, 10)`
createUser(header, input) ==
    /\ Ready
    /\ LET context == createContext(header)
           username == Get(input, "username")
           email == Get(input, "email")
           password == Get(input, "password")
           thrown == FirstThrown(<<validateRequired(username, "username"),
                                   validateRequired(email, "email"),
                                   validateRequired(password, "password"),
                                   validateUsername(username),
                                   validateEmail(email),
                                   validatePassword(password),
                                   IF Truthy(getUserByEmail(email)) THEN EmailExists ELSE Null>>)
       IN IF thrown # Null
          THEN /\ response' = Response("createUser", [input |-> input], context, thrown, Null)
               /\ UNCHANGED <<store, now, issued, inflight, steps>>
          ELSE /\ Suspend([op |-> "createUser", args |-> [input |-> input], context |-> Kept(context)])
               /\ UNCHANGED <<store, now, issued>>

\* Mutation.createUser from the resumption after the hash to its return
createUserResume(slot) ==
    /\ Ready
    /\ Counted
    /\ inflight[slot].op = "createUser"
    /\ LET request == inflight[slot]
           input == request.args.input
           hashedPassword == bcryptHash(input.password)
           created == DataStore_createUser([username |-> input.username,
                                            email |-> input.email,
                                            password |-> hashedPassword])
       IN /\ users' = created.users
          /\ nextUserId' = created.nextUserId
          /\ response' = Response("createUser", request.args, request.context, Null,
                                  Without(created.ret, "password"))
    /\ inflight' = [inflight EXCEPT ![slot] = Idle]
    /\ UNCHANGED <<listings, orders, sessions, nextListingId, nextOrderId, now, issued>>

\* Mutation.updateUser from `dataStore.updateUser(id, updates)` to its return
updateUserFinish(op, args, context, updates) ==
    LET updated == DataStore_updateUser(args.id, updates)
        thrown == IF updated.ret = Null
                  THEN TypeError(Msg("Cannot destructure property 'password' of 'updatedUser' as it is null."))
                  ELSE Null
    IN /\ users' = updated.users
       /\ response' = Response(op, args, context, thrown, Without(updated.ret, "password"))

\* Mutation.updateUser up to `await bcrypt.hash(input.password, 10)`, and to
\* the end when the input has no password
updateUser(header, id, input) ==
    /\ Ready
    /\ LET context == createContext(header)
           args == [id |-> id, input |-> input]
           existingUser == getUserById(id)
           existingEmailUser == getUserByEmail(Get(input, "email"))
           thrown == FirstThrown(<<
               requireOwnership(context, id),
               IF ~Truthy(existingUser) THEN NotFound("User", id) ELSE Null,
               IF Truthy(Get(input, "username")) THEN validateUsername(input.username) ELSE Null,
               IF Truthy(Get(input, "email")) THEN validateEmail(input.email) ELSE Null,
               IF Truthy(Get(input, "email")) /\ Truthy(existingEmailUser) /\ existingEmailUser.id # id
               THEN EmailExists ELSE Null,
               IF Truthy(Get(input, "password")) THEN validatePassword(input.password) ELSE Null>>)
       IN IF thrown # Null
          THEN /\ response' = Response("updateUser", args, context, thrown, Null)
               /\ UNCHANGED <<store, now, issued, inflight, steps>>
          ELSE IF Truthy(Get(input, "password"))
          THEN /\ Suspend([op |-> "updateUser", args |-> args, context |-> Kept(context)])
               /\ UNCHANGED <<store, now, issued>>
          ELSE /\ Counted
               /\ updateUserFinish("updateUser", args, context, input)
               /\ UNCHANGED <<listings, orders, sessions, nextUserId, nextListingId, nextOrderId,
                              now, issued, inflight>>

updateUserResume(slot) ==
    /\ Ready
    /\ Counted
    /\ inflight[slot].op = "updateUser"
    /\ LET request == inflight[slot]
           input == request.args.input
           updates == Merge(input, [password |-> bcryptHash(input.password)])
       IN updateUserFinish("updateUser", request.args, request.context, updates)
    /\ inflight' = [inflight EXCEPT ![slot] = Idle]
    /\ UNCHANGED <<listings, orders, sessions, nextUserId, nextListingId, nextOrderId, now, issued>>

\* deleteUser deleting the listings of the user with the user.
deleteUser_Cascade(header, id) ==
    /\ Ready
    /\ LET context == createContext(header)
           existingUser == getUserById(id)
           deleted == DataStore_deleteUser(id)
           guards == FirstThrown(<<requireOwnership(context, id),
                                   IF ~Truthy(existingUser) THEN NotFound("User", id) ELSE Null>>)
           OfOthers(record) == record.userId # id
       IN /\ IF guards # Null THEN Free ELSE Counted
          /\ users' = IF guards # Null THEN users ELSE deleted.users
          /\ listings' = IF guards # Null THEN listings ELSE SelectSeq(listings, OfOthers)
          /\ response' = Response("deleteUser", [id |-> id], context, guards,
                                  [message |-> Msg("User deleted successfully")])
          /\ UNCHANGED <<orders, sessions, nextUserId, nextListingId, nextOrderId,
                         now, issued, inflight>>

\* Mutation.deleteUser
deleteUser(header, id) ==
    /\ Ready
    /\ LET context == createContext(header)
           existingUser == getUserById(id)
           deleted == DataStore_deleteUser(id)
           guards == FirstThrown(<<requireOwnership(context, id),
                                   IF ~Truthy(existingUser) THEN NotFound("User", id) ELSE Null>>)
           thrown == IF guards # Null THEN guards
                     ELSE IF ~deleted.ret
                     THEN GraphQLError(Msg("Failed to delete user"), "INTERNAL_ERROR",
                                       Details("An error occurred while deleting the user"))
                     ELSE Null
       IN /\ IF guards # Null THEN Free ELSE Counted
          /\ users' = IF guards # Null THEN users ELSE deleted.users
          /\ response' = Response("deleteUser", [id |-> id], context, thrown,
                                  [message |-> Msg("User deleted successfully")])
          /\ UNCHANGED <<listings, orders, sessions, nextUserId, nextListingId, nextOrderId,
                         now, issued, inflight>>

\* ---------------------------------------------------------- authResolvers
\* A lookup failure answered in words of its own.
UserNotFound ==
    GraphQLError(Msg("User not found"), "AUTHENTICATION_ERROR",
                 Details("Invalid email or password"))

\* the error thrown when no user has the email
InvalidCredentialsNoUser ==
    GraphQLError(Msg("Invalid credentials"), "AUTHENTICATION_ERROR",
                 Details("Invalid email or password"))

\* the error thrown when the password does not match
InvalidCredentialsBadPassword ==
    GraphQLError(Msg("Invalid credentials"), "AUTHENTICATION_ERROR",
                 Details("Invalid email or password"))

\* Mutation.login up to `await bcrypt.compare(password, user.password)`
login(header, input) ==
    /\ Ready
    /\ LET context == createContext(header)
           email == Get(input, "email")
           password == Get(input, "password")
           found == getUserByEmail(email)
           thrown == FirstThrown(<<validateRequired(email, "email"),
                                   validateRequired(password, "password"),
                                   validateEmail(email),
                                   IF ~Truthy(found) THEN InvalidCredentialsNoUser ELSE Null>>)
       IN IF thrown # Null
          THEN /\ response' = Response("login", [input |-> input], context, thrown, Null)
               /\ UNCHANGED <<store, now, issued, inflight, steps>>
          ELSE /\ Suspend([op |-> "login", args |-> [input |-> input], context |-> Kept(context),
                           user |-> found,
                           isValidPassword |-> bcryptCompare(password, Get(found, "password"))])
               /\ UNCHANGED <<store, now, issued>>

\* Mutation.login from the resumption after the comparison to its return
loginResume(slot) ==
    /\ Ready
    /\ Counted
    /\ inflight[slot].op = "login"
    /\ LET request == inflight[slot]
           thrown == IF ~request.isValidPassword THEN InvalidCredentialsBadPassword ELSE Null
           token == generateToken(request.user)
       IN /\ sessions' = IF thrown # Null THEN sessions ELSE addSession(token)
          /\ issued' = IF thrown # Null THEN issued ELSE issued \cup {token}
          /\ response' = Response("login", request.args, request.context, thrown,
                                  [token |-> token, user |-> Without(request.user, "password")])
    /\ inflight' = [inflight EXCEPT ![slot] = Idle]
    /\ UNCHANGED <<users, listings, orders, nextUserId, nextListingId, nextOrderId, now>>

\* Mutation.logout
logout(header) ==
    /\ Ready
    /\ LET context == createContext(header)
           thrown == requireAuth(context)
       IN /\ IF thrown # Null THEN Free ELSE Counted
          /\ sessions' = IF thrown = Null /\ Truthy(context.token)
                         THEN removeSession(context.token) ELSE sessions
          /\ response' = Response("logout", [token |-> context.token], context, thrown,
                                  [message |-> Msg("Logout successful")])
          /\ UNCHANGED <<users, listings, orders, nextUserId, nextListingId, nextOrderId,
                         now, issued, inflight>>

\* ------------------------------------------------------- listingResolvers
\* `listing_${Date.now()}_${index}.jpg`
PlaceholderUrl(time, index) == [tpl |-> <<"listing_", time, "_", index, ".jpg">>]

\* { ...obj } of a value that may be undefined or null
Spread(obj) == IF obj \in {Undefined, Null} THEN <<>> ELSE obj

\* Query.listing
listing(header, id) ==
    /\ Ready
    /\ LET context == createContext(header)
           found == getListingById(id)
           thrown == IF ~Truthy(found) THEN NotFound("Listing", id) ELSE Null
       IN /\ response' = Response("listing", [id |-> id], context, thrown, found)
          /\ UNCHANGED <<store, now, issued, inflight, steps>>

\* Query.listings
listingsQuery(header, filter) ==
    /\ Ready
    /\ LET context == createContext(header)
       IN /\ response' = Response("listings", [filter |-> filter], context, Null,
                                  Arr(getListings(IF Truthy(filter) THEN filter ELSE <<>>)))
          /\ UNCHANGED <<store, now, issued, inflight, steps>>

\* Mutation.createListing
createListing(header, input) ==
    /\ Ready
    /\ LET context == createContext(header)
           title == Get(input, "title")
           description == Get(input, "description")
           price == Get(input, "price")
           images == Get(input, "images")
           thrown == FirstThrown(<<requireAuth(context),
                                   validateRequired(title, "title"),
                                   validateRequired(description, "description"),
                                   validateRequired(price, "price"),
                                   validatePrice(price)>>)
           imageUrls == IF Truthy(images) /\ Len(images.arr) > 0
                        THEN Arr([index \in DOMAIN images.arr |-> PlaceholderUrl(now, index - 1)])
                        ELSE Arr(<<>>)
           created == DataStore_createListing(
                          [title |-> title, description |-> description, price |-> price,
                           category |-> Get(input, "category"), condition |-> Get(input, "condition"),
                           location |-> Get(input, "location"), images |-> imageUrls,
                           userId |-> context.user.id])
       IN IF thrown # Null
          THEN /\ response' = Response("createListing", [input |-> input], context, thrown, Null)
               /\ UNCHANGED <<store, now, issued, inflight, steps>>
          ELSE /\ Counted
               /\ listings' = created.listings
               /\ nextListingId' = created.nextListingId
               /\ response' = Response("createListing", [input |-> input], context, Null, created.ret)
               /\ UNCHANGED <<users, orders, sessions, nextUserId, nextOrderId, now, issued, inflight>>

\* Mutation.updateListing
updateListing(header, id, input) ==
    /\ Ready
    /\ LET context == createContext(header)
           existingListing == getListingById(id)
           thrown == FirstThrown(<<requireAuth(context),
                                   IF ~Truthy(existingListing) THEN NotFound("Listing", id) ELSE Null,
                                   requireOwnership(context, Get(existingListing, "userId")),
                                   IF Get(input, "price") # Undefined
                                   THEN validatePrice(input.price) ELSE Null>>)
           updated == DataStore_updateListing(id, input)
       IN /\ IF thrown # Null THEN Free ELSE Counted
          /\ listings' = IF thrown # Null THEN listings ELSE updated.listings
          /\ response' = Response("updateListing", [id |-> id, input |-> input], context, thrown,
                                  updated.ret)
          /\ UNCHANGED <<users, orders, sessions, nextUserId, nextListingId, nextOrderId,
                         now, issued, inflight>>

\* deleteListing deleting before it checks the owner.
deleteListing_BeforeOwnership(header, id) ==
    /\ Ready
    /\ LET context == createContext(header)
           existingListing == getListingById(id)
           deleted == DataStore_deleteListing(id)
           guards == FirstThrown(<<requireAuth(context),
                                   IF ~Truthy(existingListing) THEN NotFound("Listing", id) ELSE Null,
                                   requireOwnership(context, Get(existingListing, "userId"))>>)
       IN /\ IF guards # Null THEN Free ELSE Counted
          /\ listings' = IF requireAuth(context) # Null \/ ~Truthy(existingListing)
                          THEN listings ELSE deleted.listings
          /\ response' = Response("deleteListing", [id |-> id], context, guards,
                                  [message |-> Msg("Listing deleted successfully")])
          /\ UNCHANGED <<users, orders, sessions, nextUserId, nextListingId, nextOrderId,
                         now, issued, inflight>>

\* Mutation.deleteListing
deleteListing(header, id) ==
    /\ Ready
    /\ LET context == createContext(header)
           existingListing == getListingById(id)
           deleted == DataStore_deleteListing(id)
           guards == FirstThrown(<<requireAuth(context),
                                   IF ~Truthy(existingListing) THEN NotFound("Listing", id) ELSE Null,
                                   requireOwnership(context, Get(existingListing, "userId"))>>)
           thrown == IF guards # Null THEN guards
                     ELSE IF ~deleted.ret
                     THEN GraphQLError(Msg("Failed to delete listing"), "INTERNAL_ERROR",
                                       Details("An error occurred while deleting the listing"))
                     ELSE Null
       IN /\ IF guards # Null THEN Free ELSE Counted
          /\ listings' = IF guards # Null THEN listings ELSE deleted.listings
          /\ response' = Response("deleteListing", [id |-> id], context, thrown,
                                  [message |-> Msg("Listing deleted successfully")])
          /\ UNCHANGED <<users, orders, sessions, nextUserId, nextListingId, nextOrderId,
                         now, issued, inflight>>

\* Listing.user, resolved for a listing the store holds
ListingUser(header, index) ==
    /\ Ready
    /\ index \in DOMAIN listings
    /\ LET context == createContext(header)
           parent == listings[index]
           found == getUserById(parent.userId)
       IN response' = Response("Listing.user", [parent |-> parent], context, Null,
                               IF Truthy(found) THEN Without(found, "password") ELSE Null)
    /\ UNCHANGED <<store, now, issued, inflight, steps>>

\* --------------------------------------------------------- orderResolvers
AccessDeniedOrders ==
    GraphQLError(Msg("Access denied"), "FORBIDDEN", Details("You can only access your own orders"))

\* Query.order
order(header, id) ==
    /\ Ready
    /\ LET context == createContext(header)
           found == getOrderById(id)
           thrown == FirstThrown(<<requireAuth(context),
                                   IF ~Truthy(found) THEN NotFound("Order", id) ELSE Null,
                                   IF Get(found, "userId") # Get(context.user, "id")
                                   THEN AccessDeniedOrders ELSE Null>>)
       IN /\ response' = Response("order", [id |-> id], context, thrown, found)
          /\ UNCHANGED <<store, now, issued, inflight, steps>>

\* Query.orders
ordersQuery(header, filter, pagination) ==
    /\ Ready
    /\ LET context == createContext(header)
           orderFilter == Merge(Spread(filter),
                                [userId |-> IF Truthy(Get(filter, "userId")) THEN filter.userId
                                            ELSE Get(context.user, "id")])
           thrown == FirstThrown(<<requireAuth(context),
                                   IF Truthy(Get(filter, "userId"))
                                      /\ filter.userId # Get(context.user, "id")
                                   THEN AccessDeniedOrders ELSE Null>>)
       IN /\ response' = Response("orders", [filter |-> filter, pagination |-> pagination], context,
                                  thrown,
                                  getOrders(orderFilter,
                                            IF Truthy(pagination) THEN pagination
                                            ELSE DefaultPagination))
          /\ UNCHANGED <<store, now, issued, inflight, steps>>

\* createOrder pricing the order at the price of one unit.
createOrder_UnitPrice(header, input) ==
    /\ Ready
    /\ LET context == createContext(header)
           listingId == Get(input, "listingId")
           quantity == Get(input, "quantity")
           shippingAddress == Get(input, "shippingAddress")
           buyerNotes == Get(input, "buyerNotes")
           found == getListingById(listingId)
           thrown == FirstThrown(<<requireAuth(context),
                                   validateRequired(listingId, "listingId"),
                                   validateRequired(quantity, "quantity"),
                                   validateRequired(shippingAddress, "shippingAddress"),
                                   validateQuantity(quantity),
                                   IF ~Truthy(found) THEN NotFound("Listing", listingId) ELSE Null>>)
           totalPrice == found.price
           created == DataStore_createOrder(
                          [userId |-> context.user.id, listingId |-> listingId,
                           quantity |-> quantity, totalPrice |-> totalPrice,
                           shippingAddress |-> shippingAddress, buyerNotes |-> buyerNotes])
       IN IF thrown # Null
          THEN /\ response' = Response("createOrder", [input |-> input], context, thrown, Null)
               /\ UNCHANGED <<store, now, issued, inflight, steps>>
          ELSE /\ Counted
               /\ orders' = created.orders
               /\ nextOrderId' = created.nextOrderId
               /\ response' = Response("createOrder", [input |-> input], context, Null, created.ret)
               /\ UNCHANGED <<users, listings, sessions, nextUserId, nextListingId, now, issued,
                              inflight>>

\* Mutation.createOrder
createOrder(header, input) ==
    /\ Ready
    /\ LET context == createContext(header)
           listingId == Get(input, "listingId")
           quantity == Get(input, "quantity")
           shippingAddress == Get(input, "shippingAddress")
           buyerNotes == Get(input, "buyerNotes")
           found == getListingById(listingId)
           thrown == FirstThrown(<<requireAuth(context),
                                   validateRequired(listingId, "listingId"),
                                   validateRequired(quantity, "quantity"),
                                   validateRequired(shippingAddress, "shippingAddress"),
                                   validateQuantity(quantity),
                                   IF ~Truthy(found) THEN NotFound("Listing", listingId) ELSE Null>>)
           totalPrice == Num(found.price.num * quantity.num)
           created == DataStore_createOrder(
                          [userId |-> context.user.id, listingId |-> listingId,
                           quantity |-> quantity, totalPrice |-> totalPrice,
                           shippingAddress |-> shippingAddress, buyerNotes |-> buyerNotes])
       IN IF thrown # Null
          THEN /\ response' = Response("createOrder", [input |-> input], context, thrown, Null)
               /\ UNCHANGED <<store, now, issued, inflight, steps>>
          ELSE /\ Counted
               /\ orders' = created.orders
               /\ nextOrderId' = created.nextOrderId
               /\ response' = Response("createOrder", [input |-> input], context, Null, created.ret)
               /\ UNCHANGED <<users, listings, sessions, nextUserId, nextListingId, now, issued,
                              inflight>>

\* Mutation.updateOrder
updateOrder(header, id, input) ==
    /\ Ready
    /\ LET context == createContext(header)
           existingOrder == getOrderById(id)
           thrown == FirstThrown(<<requireAuth(context),
                                   IF ~Truthy(existingOrder) THEN NotFound("Order", id) ELSE Null,
                                   requireOwnership(context, Get(existingOrder, "userId")),
                                   IF Get(input, "quantity") # Undefined
                                   THEN validateQuantity(input.quantity) ELSE Null>>)
           found == getListingById(existingOrder.listingId)
           updates == IF Get(input, "quantity") # Undefined /\ Truthy(found)
                      THEN Merge(input, [totalPrice |-> Num(found.price.num * input.quantity.num)])
                      ELSE input
           updated == DataStore_updateOrder(id, updates)
       IN /\ IF thrown # Null THEN Free ELSE Counted
          /\ orders' = IF thrown # Null THEN orders ELSE updated.orders
          /\ response' = Response("updateOrder", [id |-> id, input |-> input], context, thrown,
                                  updated.ret)
          /\ UNCHANGED <<users, listings, sessions, nextUserId, nextListingId, nextOrderId,
                         now, issued, inflight>>

\* Mutation.deleteOrder
deleteOrder(header, id) ==
    /\ Ready
    /\ LET context == createContext(header)
           existingOrder == getOrderById(id)
           deleted == DataStore_deleteOrder(id)
           guards == FirstThrown(<<requireAuth(context),
                                   IF ~Truthy(existingOrder) THEN NotFound("Order", id) ELSE Null,
                                   requireOwnership(context, Get(existingOrder, "userId"))>>)
           thrown == IF guards # Null THEN guards
                     ELSE IF ~deleted.ret
                     THEN GraphQLError(Msg("Failed to delete order"), "INTERNAL_ERROR",
                                       Details("An error occurred while deleting the order"))
                     ELSE Null
       IN /\ IF guards # Null THEN Free ELSE Counted
          /\ orders' = IF guards # Null THEN orders ELSE deleted.orders
          /\ response' = Response("deleteOrder", [id |-> id], context, thrown,
                                  [message |-> Msg("Order deleted successfully")])
          /\ UNCHANGED <<users, listings, sessions, nextUserId, nextListingId, nextOrderId,
                         now, issued, inflight>>

\* cancelOrder without the check for an order already cancelled.
AlreadyCancelled_Never(existingOrder) == Null

\* The first check of cancelOrder on the order's status.
AlreadyCancelled(existingOrder) ==
    IF Get(existingOrder, "status") = Enum("CANCELLED")
    THEN GraphQLError(Msg("Order is already cancelled"), "INVALID_OPERATION",
                      Details("This order has already been cancelled"))
    ELSE Null

\* The second check of cancelOrder on the order's status.
CannotCancelDelivered(existingOrder) ==
    IF Get(existingOrder, "status") = Enum("DELIVERED")
    THEN GraphQLError(Msg("Cannot cancel delivered order"), "INVALID_OPERATION",
                      Details("Delivered orders cannot be cancelled"))
    ELSE Null

\* Mutation.cancelOrder
cancelOrder(header, id, cancelReason) ==
    /\ Ready
    /\ LET context == createContext(header)
           existingOrder == getOrderById(id)
           thrown == FirstThrown(<<
               requireAuth(context),
               IF ~Truthy(existingOrder) THEN NotFound("Order", id) ELSE Null,
               requireOwnership(context, Get(existingOrder, "userId")),
               AlreadyCancelled(existingOrder),
               CannotCancelDelivered(existingOrder)>>)
           cancelled == DataStore_cancelOrder(id, cancelReason)
       IN /\ IF thrown # Null THEN Free ELSE Counted
          /\ orders' = IF thrown # Null THEN orders ELSE cancelled.orders
          /\ response' = Response("cancelOrder", [id |-> id, cancelReason |-> cancelReason], context,
                                  thrown,
                                  [message |-> Msg("Order cancelled successfully"),
                                   order |-> cancelled.ret])
          /\ UNCHANGED <<users, listings, sessions, nextUserId, nextListingId, nextOrderId,
                         now, issued, inflight>>

\* Mutation.updateOrderStatus
updateOrderStatus(header, id, status) ==
    /\ Ready
    /\ LET context == createContext(header)
           existingOrder == getOrderById(id)
           thrown == FirstThrown(<<requireAuth(context),
                                   IF ~Truthy(existingOrder) THEN NotFound("Order", id) ELSE Null,
                                   requireOwnership(context, Get(existingOrder, "userId")),
                                   validateOrderStatus(status)>>)
           updated == DataStore_updateOrderStatus(id, status)
       IN /\ IF thrown # Null THEN Free ELSE Counted
          /\ orders' = IF thrown # Null THEN orders ELSE updated.orders
          /\ response' = Response("updateOrderStatus", [id |-> id, status |-> status], context,
                                  thrown, updated.ret)
          /\ UNCHANGED <<users, listings, sessions, nextUserId, nextListingId, nextOrderId,
                         now, issued, inflight>>

\* Order.user, resolved for an order the store holds
OrderUser(header, index) ==
    /\ Ready
    /\ index \in DOMAIN orders
    /\ LET context == createContext(header)
           parent == orders[index]
           found == getUserById(parent.userId)
       IN response' = Response("Order.user", [parent |-> parent], context, Null,
                               IF Truthy(found) THEN Without(found, "password") ELSE Null)
    /\ UNCHANGED <<store, now, issued, inflight, steps>>

\* Order.listing, resolved for an order the store holds
OrderListing(header, index) ==
    /\ Ready
    /\ index \in DOMAIN orders
    /\ LET context == createContext(header)
           parent == orders[index]
       IN response' = Response("Order.listing", [parent |-> parent], context, Null,
                               getListingById(parent.listingId))
    /\ UNCHANGED <<store, now, issued, inflight, steps>>

\* ----------------------------------------------------------------- inputs
\* All partial records over the fields of `values`: each field absent or
\* drawn from values[field].
PartialRecords(values) ==
    UNION {{r \in [fields -> UNION {values[f] : f \in fields}] :
                \A f \in fields : r[f] \in values[f]} : fields \in SUBSET DOMAIN values}

IdArgs == {Num(i) : i \in 1..MaxId}

\* createUser: a valid registration, and inputs that fail one check each
\* (one fails two: a stored email next to a short password).
UserCreateInputs ==
    {[username |-> BobName, email |-> NewEmail, password |-> SecretText],
     [username |-> BobName, email |-> NewEmail, password |-> PasswordText],
     [username |-> BobName, email |-> JohnEmail, password |-> SecretText],
     [username |-> BobName, email |-> JohnEmail, password |-> ShortText],
     [username |-> AbName, email |-> NewEmail, password |-> SecretText],
     [username |-> BobName, email |-> BadEmail, password |-> SecretText],
     [username |-> EmptyString, email |-> NewEmail, password |-> SecretText]}

UserUpdateInputs ==
    {[email |-> NewEmail], [email |-> JaneEmail], [username |-> AbName],
     [email |-> NewEmail, password |-> SecretText], [password |-> ShortText],
     [password |-> EmptyString], [username |-> EmptyString]}

UserLoginInputs ==
    {[email |-> JohnEmail, password |-> PasswordText],
     [email |-> JohnEmail, password |-> SecretText],
     [email |-> NewEmail, password |-> SecretText],
     [email |-> NewEmail, password |-> PasswordText],
     [email |-> BadEmail, password |-> SecretText]}

\* ------------------------------------------------- the user specification
\* The operations on users and sessions, with the nested user resolvers.
NextUsers ==
    \/ \E id \in IdArgs : user(Undefined, id)
    \/ \E input \in UserCreateInputs : createUser(Undefined, input)
    \/ \E slot \in Slots : createUserResume(slot)
    \/ \E h \in Headers, id \in IdArgs, input \in UserUpdateInputs : updateUser(h, id, input)
    \/ \E slot \in Slots : updateUserResume(slot)
    \/ \E h \in Headers, id \in IdArgs : deleteUser(h, id)
    \/ \E input \in UserLoginInputs : login(Undefined, input)
    \/ \E slot \in Slots : loginResume(slot)
    \/ \E h \in Headers : logout(h)
    \/ \E index \in 1..MaxId : ListingUser(Undefined, index)
    \/ \E index \in 1..MaxId : OrderUser(Undefined, index)
    \/ Deliver

SpecUsers == Init /\ [][NextUsers]_vars

\* Inputs of the listing and order operations.
MarketLoginInputs ==
    {[email |-> JohnEmail, password |-> PasswordText]}

ListingFilters == {Undefined, [category |-> Music]}

\* Filters of the listings query on every field: a search term in capitals
\* found in a title, one found in a description only, prices on and beside
\* the price of a stored listing, empty strings.
ListingFiltersAll ==
    ListingFilters \cup
    {[search |-> Str(<<"P", "H", "O", "N", "E">>), priceMax |-> Num(100000)],
     [search |-> Str(<<"A", "c", "o", "u", "s", "t", "i", "c">>)],
     [search |-> EmptyString],
     [priceMin |-> Num(45000)],
     [priceMax |-> Num(45000)],
     [priceMin |-> Num(2500), priceMax |-> Num(45000), category |-> Music],
     [condition |-> Enum("NEW")],
     [category |-> EmptyString]}

ListingCreateInputs ==
    {[title |-> GuitarTitle, description |-> GuitarDescription, price |-> Num(2500)],
     [title |-> GuitarTitle, description |-> GuitarDescription, price |-> Num(0)]}

ListingUpdateInputs == {[price |-> Num(2500)], [price |-> Num(-100)]}

OrderCreateInputs ==
    {[listingId |-> Num(l), quantity |-> Num(q), shippingAddress |-> SeedAddress] :
        l \in {1, MaxId}, q \in {-1, 2}}

OrderUpdateInputs == {[quantity |-> Num(3)], [quantity |-> Num(-1)], [quantity |-> Frac(3, 2)]}

OrderFilters == {Undefined, [userId |-> Num(1)], [userId |-> Num(2)]}

Paginations == {Undefined, [page |-> Num(1), limit |-> Num(1)]}

CancelReasons == {Undefined}

StatusArgs == {Enum("SHIPPED"), Enum("DELIVERED")}

\* The listing and order operations, with the logins that give them callers.
NextMarket ==
    \/ \E input \in MarketLoginInputs : login(Undefined, input)
    \/ \E slot \in Slots : loginResume(slot)
    \/ \E id \in IdArgs : listing(Undefined, id)
    \/ \E filter \in ListingFiltersAll : listingsQuery(Undefined, filter)
    \/ \E h \in Headers, input \in ListingCreateInputs : createListing(h, input)
    \/ \E h \in Headers, id \in IdArgs, input \in ListingUpdateInputs : updateListing(h, id, input)
    \/ \E h \in Headers, id \in IdArgs : deleteListing(h, id)
    \/ \E h \in Headers, id \in IdArgs : order(h, id)
    \/ \E h \in Headers, filter \in OrderFilters, pagination \in Paginations :
          ordersQuery(h, filter, pagination)
    \/ \E h \in Headers, input \in OrderCreateInputs : createOrder(h, input)
    \/ \E h \in Headers, id \in IdArgs, input \in OrderUpdateInputs : updateOrder(h, id, input)
    \/ \E h \in Headers, id \in IdArgs : deleteOrder(h, id)
    \/ \E h \in Headers, id \in IdArgs, cancelReason \in CancelReasons :
          cancelOrder(h, id, cancelReason)
    \/ \E h \in Headers, id \in IdArgs, status \in StatusArgs : updateOrderStatus(h, id, status)
    \/ \E index \in 1..MaxId : OrderListing(Undefined, index)
    \/ Deliver

SpecMarket == Init /\ [][NextMarket]_vars

\* A token this server signed for the first seed user a token's lifetime
\* before the store was constructed: the store lives in memory and the key is
\* fixed, so tokens outlast a restart.
ExpiredToken ==
    [payload |-> [id |-> Num(1), email |-> JohnEmail, username |-> JohnDoe,
                  iat |-> 0 - TokenTTL, exp |-> 0],
     sig |-> JWT_SECRET]

\* The Authorization headers a client can send: none, a token the server
\* issued, a token signed with another key, a token that has expired.
NoIdentity == {Undefined, ForgedToken, ExpiredToken}

AnyHeaders == Headers \cup NoIdentity

UserCreateInputsFew ==
    {[username |-> BobName, email |-> NewEmail, password |-> SecretText],
     [username |-> BobName, email |-> JohnEmail, password |-> SecretText]}

UserUpdateInputsFew == {[email |-> NewEmail, password |-> SecretText]}

UserLoginInputsFew == {[email |-> JohnEmail, password |-> PasswordText]}

\* Every operation of the schema.
Next ==
    \/ \E h \in NoIdentity, id \in IdArgs : user(h, id)
    \/ \E h \in NoIdentity, input \in UserCreateInputsFew : createUser(h, input)
    \/ \E slot \in Slots : createUserResume(slot)
    \/ \E h \in AnyHeaders, id \in IdArgs, input \in UserUpdateInputsFew \cup {[password |-> ShortText]} :
          updateUser(h, id, input)
    \/ \E slot \in Slots : updateUserResume(slot)
    \/ \E h \in AnyHeaders, id \in IdArgs : deleteUser(h, id)
    \/ \E h \in NoIdentity, input \in UserLoginInputsFew : login(h, input)
    \/ \E slot \in Slots : loginResume(slot)
    \/ \E h \in AnyHeaders : logout(h)
    \/ \E h \in NoIdentity, id \in IdArgs : listing(h, id)
    \/ \E h \in NoIdentity, filter \in ListingFilters : listingsQuery(h, filter)
    \/ \E h \in AnyHeaders, input \in ListingCreateInputs : createListing(h, input)
    \/ \E h \in AnyHeaders, id \in IdArgs, input \in ListingUpdateInputs :
          updateListing(h, id, input)
    \/ \E h \in AnyHeaders, id \in IdArgs : deleteListing(h, id)
    \/ \E h \in AnyHeaders, id \in IdArgs : order(h, id)
    \/ \E h \in AnyHeaders, filter \in OrderFilters, pagination \in Paginations :
          ordersQuery(h, filter, pagination)
    \/ \E h \in AnyHeaders, input \in OrderCreateInputs : createOrder(h, input)
    \/ \E h \in AnyHeaders, id \in IdArgs, input \in OrderUpdateInputs : updateOrder(h, id, input)
    \/ \E h \in AnyHeaders, id \in IdArgs : deleteOrder(h, id)
    \/ \E h \in AnyHeaders, id \in IdArgs, cancelReason \in CancelReasons :
          cancelOrder(h, id, cancelReason)
    \/ \E h \in AnyHeaders, id \in IdArgs, status \in StatusArgs : updateOrderStatus(h, id, status)
    \/ \E index \in 1..MaxId : ListingUser(Undefined, index)
    \/ \E index \in 1..MaxId : OrderUser(Undefined, index)
    \/ \E index \in 1..MaxId : OrderListing(Undefined, index)
    \/ Deliver

Spec == Init /\ [][Next]_vars

\* The page and limit arguments of the orders query: pages before the
\* first, within and beyond the collection, limits of one and two.
PageArgs == {[page |-> Num(p), limit |-> Num(l)] : p \in (0 - 1)..MaxId, l \in 1..2}

\* The life of an order: a buyer logs in, orders, changes, cancels and moves
\* the order while time passes and the listing changes under it.
NextOrders ==
    \/ \E input \in MarketLoginInputs : login(Undefined, input)
    \/ \E slot \in Slots : loginResume(slot)
    \/ \E h \in Headers, input \in OrderCreateInputs : createOrder(h, input)
    \/ \E h \in Headers, id \in IdArgs, input \in OrderUpdateInputs : updateOrder(h, id, input)
    \/ \E h \in Headers, id \in IdArgs, cancelReason \in CancelReasons \cup {After5PM} :
          cancelOrder(h, id, cancelReason)
    \/ \E h \in Headers, id \in IdArgs, status \in StatusArgs : updateOrderStatus(h, id, status)
    \/ \E h \in Headers, id \in IdArgs, input \in ListingUpdateInputs : updateListing(h, id, input)
    \/ \E h \in Headers, id \in IdArgs : deleteListing(h, id)
    \/ \E h \in Headers, pagination \in PageArgs : ordersQuery(h, Undefined, pagination)
    \/ Tick
    \/ Deliver

SpecOrders == Init /\ [][NextOrders]_vars

\* Sessions: tokens are issued, presented, logged out and presented again
\* while time passes.
NextSessions ==
    \/ \E input \in MarketLoginInputs : login(Undefined, input)
    \/ \E slot \in Slots : loginResume(slot)
    \/ \E h \in AnyHeaders : logout(h)
    \/ \E h \in AnyHeaders, id \in IdArgs : order(h, id)
    \/ \E h \in AnyHeaders, input \in ListingCreateInputs : createListing(h, input)
    \/ \E h \in AnyHeaders, id \in IdArgs : deleteUser(h, id)
    \/ Tick
    \/ Deliver

SpecSessions == Init /\ [][NextSessions]_vars

\* ================================================================ claims
Range(f) == {f[x] : x \in DOMAIN f}

\* A user with this email is in the store.
EmailStored(email) == \E i \in DOMAIN users : Get(users[i], "email") = email

\* This step is the start of a request `op` that reached its await in `slot`.
Suspends(slot, op) == inflight[slot] = Idle /\ inflight'[slot].op = op

\* This step resumes the request `op` suspended in `slot` and answers it.
Resumes(slot, op) == inflight[slot].op = op /\ inflight'[slot] = Idle

\* This step ran a request `op` from its start to its answer.
Answers(op) == response = NoResponse /\ response'.op = op /\ inflight' = inflight

\* The input passes the field checks of createUser.
ValidUserInput(input) ==
    /\ DOMAIN input = {"username", "email", "password"}
    /\ Len(input.username.str) >= 3
    /\ EmailRegexTest(input.email)
    /\ Len(input.password.str) >= 6

\* ---------------------------------------------------------------------- C1
\* C1: a successful createUser returns a record without a password field
\* whose id is above every user id assigned before it. The counter is above
\* every id assigned so far and never decreases, and the id returned is the
\* counter's value, so an id that was assigned before, also one whose user
\* was deleted since, is below it.
C1_CreateUserFreshId ==
    [][/\ nextUserId' >= nextUserId
       /\ \A i \in DOMAIN users' : users'[i].id.num < nextUserId'
       /\ \A slot \in Slots :
             Resumes(slot, "createUser") /\ ValidUserInput(inflight[slot].args.input) =>
                /\ response'.op = "createUser"
                /\ response'.error = Null
                /\ "password" \notin DOMAIN response'.data
                /\ response'.data.id.num >= nextUserId
                /\ \A i \in DOMAIN users : response'.data.id.num > users[i].id.num
                /\ response'.data \in {Without(u, "password") : u \in Range(users')}]_vars

\* A createUser answered after a user was deleted: the store holds fewer
\* users than ids were assigned.
C1_Witness ==
    /\ response.op = "createUser"
    /\ response.error = Null
    /\ Len(users) < response.data.id.num

\* ---------------------------------------------------------------------- C2
\* C2 as stated: createUser with the email of a stored user is rejected with
\* CONFLICT and leaves the users and the counter unchanged.
C2_Original ==
    [][/\ \A slot \in Slots :
             Suspends(slot, "createUser") => ~EmailStored(inflight'[slot].args.input.email)
       /\ Answers("createUser") /\ EmailStored(response'.args.input.email) =>
             /\ response'.error # Null
             /\ response'.error.code = "CONFLICT"
             /\ users' = users
             /\ nextUserId' = nextUserId]_vars

\* C2 (amended): createUser whose input passes the field checks (username of
\* at least 3 characters, well-formed email, password of at least 6
\* characters) and whose email is the email of a stored user is rejected with
\* CONFLICT 'Email already exists' and leaves the users and the counter
\* unchanged; with an input that fails a field check the rejection is a
\* VALIDATION_ERROR, and the store is unchanged as well.
C2_DuplicateEmailConflict ==
    [][/\ \A slot \in Slots :
             Suspends(slot, "createUser") => ~EmailStored(inflight'[slot].args.input.email)
       /\ Answers("createUser") /\ EmailStored(response'.args.input.email) =>
             /\ response'.error # Null
             /\ response'.error.code = IF ValidUserInput(response'.args.input)
                                       THEN "CONFLICT" ELSE "VALIDATION_ERROR"
             /\ response'.error.code = "CONFLICT" =>
                    response'.error.message = Msg("Email already exists")
             /\ users' = users
             /\ nextUserId' = nextUserId]_vars

\* A valid registration was rejected for its email.
C2_Witness ==
    /\ response.op = "createUser"
    /\ response.error # Null
    /\ response.error.code = "CONFLICT"
    /\ ValidUserInput(response.args.input)
    /\ EmailStored(response.args.input.email)

\* ---------------------------------------------------------------------- C3
\* C3: no two stored users have the same email.
C3_EmailUnique ==
    \A i, j \in DOMAIN users : i # j => Get(users[i], "email") # Get(users[j], "email")

\* ---------------------------------------------------------------------- C4
\* Some stored user has this email and a password hash this password matches.
Matching(input) ==
    \E i \in DOMAIN users :
        /\ Get(users[i], "email") = input.email
        /\ bcryptCompare(input.password, Get(users[i], "password"))

\* C4: login with the email and the matching password of a stored user
\* succeeds: the token's claims and the returned user are those of that
\* user, without the password, and the token is in the session set.
C4_LoginSucceeds ==
    [][/\ Answers("login") /\ response'.error # Null => ~Matching(response'.args.input)
       /\ \A slot \in Slots :
             /\ Suspends(slot, "login") /\ Matching(inflight'[slot].args.input) =>
                   /\ inflight'[slot].isValidPassword
                   /\ inflight'[slot].user \in Range(users)
                   /\ inflight'[slot].user.email = inflight'[slot].args.input.email
             /\ Resumes(slot, "login") /\ inflight[slot].isValidPassword =>
                   /\ response'.op = "login"
                   /\ response'.error = Null
                   /\ response'.data.token.payload.id = inflight[slot].user.id
                   /\ response'.data.token.payload.email = inflight[slot].user.email
                   /\ response'.data.token.payload.username = inflight[slot].user.username
                   /\ "password" \notin DOMAIN response'.data.user
                   /\ \A k \in DOMAIN inflight[slot].user \ {"password"} :
                         response'.data.user[k] = inflight[slot].user[k]
                   /\ response'.data.token \in sessions']_vars

\* ---------------------------------------------------------------------- C5
\* C5: a failed login with a well-formed email gets the same answer whether
\* the email is unknown or the password is wrong, and changes neither the
\* session set nor the store.
C5_LoginFailureUniform ==
    [][/\ response' # NoResponse /\ response'.op = "login" /\ response'.error # Null
          /\ EmailRegexTest(Get(response'.args.input, "email"))
          /\ Truthy(Get(response'.args.input, "password")) =>
             /\ response'.error = [message |-> Msg("Invalid credentials"),
                                   code |-> "AUTHENTICATION_ERROR",
                                   details |-> Details("Invalid email or password")]
       /\ response' # NoResponse /\ response'.op = "login" /\ response'.error # Null =>
             UNCHANGED <<store, issued>>]_vars

\* A login for a stored email failed on the password, after its await.
C5_Witness ==
    /\ response.op = "login"
    /\ response.error # Null
    /\ EmailStored(response.args.input.email)
    /\ response.error.code = "AUTHENTICATION_ERROR"

\* ---------------------------------------------------------------------- C9
\* The records of users in an answer: the answer itself for the operations
\* that return a user, the user field of login's answer.
ReturnedUsers ==
    IF response = NoResponse \/ response.error # Null \/ response.data = Null THEN {}
    ELSE IF response.op \in {"user", "createUser", "updateUser", "Listing.user", "Order.user"}
    THEN {response.data}
    ELSE IF response.op = "login" THEN {response.data.user}
    ELSE {}

\* C9: no answer that carries a user record carries its password.
C9_NoPasswordExposed == \A u \in ReturnedUsers : "password" \notin DOMAIN u

\* updateUser answered with the user whose password it just replaced.
C9_Witness ==
    /\ response.op = "updateUser"
    /\ response.error = Null
    /\ "password" \in DOMAIN response.args.input
    /\ \E i \in DOMAIN users : users[i].id = response.data.id /\ "password" \in DOMAIN users[i]

\* ---------------------------------------------------------------------- C6
AuthOps ==
    {"order", "orders", "logout", "updateUser", "deleteUser", "createListing", "updateListing",
     "deleteListing", "createOrder", "updateOrder", "deleteOrder", "cancelOrder",
     "updateOrderStatus"}

PublicOps == {"user", "listing", "listings", "createUser", "login"}

\* C6: an operation that needs a caller, called without an identity (no
\* header, a token that does not verify), is answered UNAUTHENTICATED whatever
\* its arguments and the store, and changes nothing; user, listing, listings,
\* createUser and login are never answered UNAUTHENTICATED.
C6_AuthRequired ==
    [][response = NoResponse /\ response' # NoResponse =>
          /\ response'.op \in AuthOps /\ response'.user = Null =>
                /\ response'.error # Null
                /\ response'.error.code = "UNAUTHENTICATED"
                /\ UNCHANGED <<store, issued, inflight>>
          /\ response'.op \in PublicOps =>
                response'.error = Null \/ response'.error.code # "UNAUTHENTICATED"]_vars

\* updateOrder without identity, for an order that does not exist and with
\* a quantity that is not valid: the lack of identity is what is reported.
C6_Witness ==
    /\ response.op = "updateOrder"
    /\ response.user = Null
    /\ ~Truthy(getOrderById(response.args.id))
    /\ response.args.input.quantity.num < 0
    /\ response.error.code = "UNAUTHENTICATED"

\* ---------------------------------------------------------------------- C7
ListingOwnerOps == {"updateListing", "deleteListing"}
OrderOwnerOps == {"updateOrder", "deleteOrder", "cancelOrder", "updateOrderStatus"}

\* The resource an owner operation is about.
Resource(op, id) == IF op \in ListingOwnerOps THEN getListingById(id) ELSE getOrderById(id)

\* C7: an authenticated caller of updateListing, deleteListing, updateOrder,
\* deleteOrder, cancelOrder or updateOrderStatus on a resource of another
\* user is answered FORBIDDEN and the resource is unchanged; on an id that no
\* resource has it is answered NOT_FOUND.
C7_OwnerOnly ==
    [][(/\ response = NoResponse
        /\ response'.op \in ListingOwnerOps \cup OrderOwnerOps
        /\ response'.user # Null) =>
          LET resource == Resource(response'.op, response'.args.id)
          IN /\ ~Truthy(resource) =>
                   /\ response'.error # Null
                   /\ response'.error.code = "NOT_FOUND"
                   /\ UNCHANGED store
             /\ Truthy(resource) /\ resource.userId # response'.user.id =>
                   /\ response'.error # Null
                   /\ response'.error.code = "FORBIDDEN"
                   /\ UNCHANGED store]_vars

\* A caller was refused the cancellation of an order of somebody else.
C7_Witness ==
    /\ response.op = "cancelOrder"
    /\ response.user # Null
    /\ Truthy(getOrderById(response.args.id))
    /\ getOrderById(response.args.id).userId # response.user.id
    /\ response.error.code = "FORBIDDEN"

\* ---------------------------------------------------------------------- C8
\* C8: orders returns only orders of the caller and refuses a filter on
\* another user; order refuses the order of another user.
C8_OwnOrdersOnly ==
    /\ response.op = "orders" /\ response.error = Null =>
          \A i \in DOMAIN response.data.orders.arr :
              response.data.orders.arr[i].userId = response.user.id
    /\ (/\ response.op = "orders"
        /\ response.user # Null
        /\ Truthy(Get(response.args.filter, "userId"))
        /\ response.args.filter.userId # response.user.id) =>
          response.error # Null /\ response.error.code = "FORBIDDEN"
    /\ (/\ response.op = "order"
        /\ response.user # Null
        /\ Truthy(getOrderById(response.args.id))
        /\ getOrderById(response.args.id).userId # response.user.id) =>
          response.error # Null /\ response.error.code = "FORBIDDEN"
    /\ response.op = "order" /\ response.error = Null =>
          response.data.userId = response.user.id

\* orders returned an order of the caller while the store holds an order of
\* somebody else.
C8_Witness ==
    /\ response.op = "orders"
    /\ response.error = Null
    /\ Len(response.data.orders.arr) > 0
    /\ \E i \in DOMAIN orders : orders[i].userId # response.user.id

OwnOrder(resp) ==
    /\ resp.user # Null
    /\ Truthy(getOrderById(resp.args.id))
    /\ getOrderById(resp.args.id).userId = resp.user.id

\* C11: cancelOrder by the owner of an order that is CANCELLED or DELIVERED
\* is answered INVALID_OPERATION and changes nothing: the order keeps its
\* status, cancelledAt, cancelReason and updatedAt; a second cancelOrder is
\* never a success.
C11_CancelRejected ==
    [][(/\ response = NoResponse
        /\ response'.op = "cancelOrder"
        /\ OwnOrder(response')
        /\ getOrderById(response'.args.id).status \in {Enum("CANCELLED"), Enum("DELIVERED")}) =>
          /\ response'.error # Null
          /\ response'.error.code = "INVALID_OPERATION"
          /\ UNCHANGED <<store, issued, inflight>>]_vars

\* The owner cancelled an order a second time and was refused.
C11_Witness ==
    /\ response.op = "cancelOrder"
    /\ OwnOrder(response)
    /\ getOrderById(response.args.id).status = Enum("CANCELLED")
    /\ Truthy(Get(getOrderById(response.args.id), "cancelledAt"))
    /\ response.error # Null
    /\ response.error.code = "INVALID_OPERATION"

\* --------------------------------------------------------------------- C12
\* The states an order can be cancelled in.
Cancellable == {Enum("PENDING"), Enum("CONFIRMED"), Enum("SHIPPED")}

\* The order of a successful cancelOrder, before and after the step, differs
\* in no field outside `touched`, and no other order differs.
CancelTouches(before, after, touched) ==
    /\ DOMAIN after = DOMAIN before \cup {"status", "cancelledAt", "cancelReason"}
    /\ \A k \in DOMAIN before \ touched : after[k] = before[k]
    /\ after.status = Enum("CANCELLED")
    /\ after.cancelledAt = Date(now)
    /\ Len(orders') = Len(orders)
    /\ \A i \in DOMAIN orders :
          IF orders[i].id = before.id THEN orders'[i] = after ELSE orders'[i] = orders[i]
    /\ UNCHANGED <<users, listings, sessions, nextUserId, nextListingId, nextOrderId>>

\* A step in which the owner cancels an order that can be cancelled.
CancelByOwner ==
    /\ response = NoResponse
    /\ response'.op = "cancelOrder"
    /\ OwnOrder(response')
    /\ getOrderById(response'.args.id).status \in Cancellable

StatusRank(status) ==
    CASE status = Enum("PENDING") -> 1
      [] status = Enum("CONFIRMED") -> 2
      [] status = Enum("SHIPPED") -> 3
      [] status = Enum("DELIVERED") -> 4
      [] OTHER -> 0

\* A change of status the life cycle allows: none, forward on the way to
\* DELIVERED, or from PENDING, CONFIRMED or SHIPPED into CANCELLED.
ForwardMove(from, to) ==
    \/ to = from
    \/ from # Enum("CANCELLED") /\ to # Enum("CANCELLED") /\ StatusRank(to) > StatusRank(from)
    \/ from \in Cancellable /\ to = Enum("CANCELLED")

\* C13: the status of an order only moves forward along PENDING, CONFIRMED,
\* SHIPPED, DELIVERED, or from PENDING, CONFIRMED or SHIPPED into CANCELLED:
\* in no step does a stored order move backward, and CANCELLED is final.
C13_StatusForward ==
    [][\A i \in DOMAIN orders : \A j \in DOMAIN orders' :
          orders'[j].id = orders[i].id => ForwardMove(orders[i].status, orders'[j].status)]_vars

\* --------------------------------------------------------------------- C14
\* C14: a successful updateOrder that changes the quantity to q stores, in
\* the same step, q together with a totalPrice of q times the price the
\* order's listing has in the store at that moment.
C14_TotalRecomputed ==
    [][(/\ response = NoResponse
        /\ response'.op = "updateOrder"
        /\ response'.error = Null
        /\ Get(response'.args.input, "quantity") # Undefined) =>
          LET q == response'.args.input.quantity
              after == response'.data
          IN /\ after.quantity = q
             /\ \E i \in DOMAIN orders' : orders'[i] = after
             /\ \E l \in DOMAIN listings :
                   /\ listings[l].id = after.listingId
                   /\ after.totalPrice.num = listings[l].price.num * q.num]_vars

\* --------------------------------------------------------------------- C15
\* The orders of the caller of an answered orders query, in insertion order.
OrdersOfCaller ==
    LET Own(o) == o.userId = response.user.id
    IN SelectSeq(orders, Own)

\* The elements of `coll` at the offsets (p - 1) * L to p * L - 1, counted
\* from zero, in the order of `coll`.
PageOf(coll, p, L) ==
    LET lo == (p - 1) * L
        cnt == Cardinality({i \in 1..Len(coll) : lo < i /\ i <= p * L})
    IN [k \in 1..cnt |-> coll[Max(lo, 0) + k]]

\* What C15 says of an answered orders query with page p and limit L.
PageAnswer(p, L) ==
    LET N == Len(OrdersOfCaller)
        pages == IF N % L = 0 THEN N \div L ELSE N \div L + 1
        info == response.data.pagination
    IN /\ info.total = Num(N)
       /\ info.pages = Num(pages)
       /\ response.data.orders = Arr(PageOf(OrdersOfCaller, p, L))
       /\ info.hasNextPage = (p < pages)
       /\ info.hasPreviousPage = (p > 1)
       /\ p > pages => response.data.orders = Arr(<<>>) /\ info.hasNextPage = FALSE

\* An orders query with page and limit was answered.
PagedOrders ==
    /\ response.op = "orders"
    /\ response.user # Null
    /\ response.args.pagination # Undefined

\* C15 as stated: for every page p and every limit L >= 1, the orders query
\* over N orders returns total N, pages ceil(N / L), the orders at offsets
\* (p - 1) * L to p * L - 1, hasNextPage p < pages, hasPreviousPage p > 1;
\* a page beyond the last is empty, without error.
C15_Original ==
    PagedOrders =>
        /\ response.error = Null
        /\ PageAnswer(response.args.pagination.page.num, response.args.pagination.limit.num)

\* C15: for every page p >= 1 and every limit L >= 1, the orders query over
\* N orders returns total N, pages ceil(N / L), the orders at offsets
\* (p - 1) * L to p * L - 1 in insertion order, hasNextPage p < pages,
\* hasPreviousPage p > 1; a page beyond the last is empty, without error.
C15_Pagination ==
    PagedOrders /\ response.args.pagination.page.num >= 1 =>
        /\ response.error = Null
        /\ PageAnswer(response.args.pagination.page.num, response.args.pagination.limit.num)

\* The second page of one order each, of a caller who has two orders.
C15_Witness ==
    /\ PagedOrders
    /\ response.args.pagination = [page |-> Num(2), limit |-> Num(1)]
    /\ Len(OrdersOfCaller) = 2
    /\ response.data.orders = Arr(<<OrdersOfCaller[2]>>)
    /\ response.data.pagination.hasNextPage = FALSE
    /\ response.data.pagination.hasPreviousPage = TRUE

\* --------------------------------------------------------------------- C16
\* The ids of a collection, in the order of the collection.
IdsOf(coll) == [i \in DOMAIN coll |-> coll[i].id.num]

\* The ids of a collection with the one at position k taken out.
IdsWithout(ids, k) == SubSeq(ids, 1, k - 1) \o SubSeq(ids, k + 1, Len(ids))

\* One step of a collection and its counter: the ids stay distinct and below
\* the counter, the counter does not decrease, and the entities keep their
\* ids: the ids after the step are those before it, or those with one taken
\* out, or those with the counter's value added, which no entity had before.
IdsKept(before, after, counter, counterAfter) ==
    /\ \A i, j \in DOMAIN after : i # j => after[i].id # after[j].id
    /\ \A i \in DOMAIN after : after[i].id.num < counterAfter
    /\ counterAfter >= counter
    /\ \/ IdsOf(after) = IdsOf(before)
       \/ \E k \in DOMAIN before : IdsOf(after) = IdsWithout(IdsOf(before), k)
       \/ IdsOf(after) = Append(IdsOf(before), counter) /\ counterAfter > counter

\* C16: within users, listings and orders the ids are distinct in every
\* state, an entity keeps its id under every operation, and an id that was
\* assigned once, freed by a delete or not, is never assigned again, however
\* the requests interleave.
C16_IdsUniqueStable ==
    [][/\ IdsKept(users, users', nextUserId, nextUserId')
       /\ IdsKept(listings, listings', nextListingId, nextListingId')
       /\ IdsKept(orders, orders', nextOrderId, nextOrderId')]_vars

\* A listing was created after another was deleted: the newest listing has
\* an id above the number of listings in the store.
C16_Witness ==
    /\ nextListingId > 3
    /\ Len(listings) < nextListingId - 1
    /\ \E i \in DOMAIN listings : listings[i].id.num = nextListingId - 1

\* --------------------------------------------------------------------- C17
\* A price, a quantity the store may hold.
PositivePrice(price) == IsNum(price) /\ price.num > 0
PositiveQuantity(quantity) == IsNum(quantity) /\ quantity.num > 0

PricesAndQuantitiesPositive ==
    /\ \A i \in DOMAIN listings : PositivePrice(listings[i].price)
    /\ \A i \in DOMAIN orders : PositiveQuantity(orders[i].quantity)

\* The caller of an answered updateListing owns the listing.
OwnListing(resp) ==
    /\ resp.user # Null
    /\ Truthy(getListingById(resp.args.id))
    /\ getListingById(resp.args.id).userId = resp.user.id

\* A step answers `op` for an input whose `field` is given and not valid.
AnswersInvalid(op, field, Valid(_)) ==
    /\ response = NoResponse
    /\ response'.op = op
    /\ field \in DOMAIN response'.args.input
    /\ ~Valid(response'.args.input[field])

Refused == response'.error # Null /\ UNCHANGED <<store, issued, inflight>>
RefusedAsInvalid == response'.error # Null /\ response'.error.code = "VALIDATION_ERROR"

\* C17: every stored listing has a price above zero and every stored order
\* a whole quantity above zero. createListing and updateListing with a price
\* of zero or less, createOrder and updateOrder with a quantity that is not
\* a whole number above zero, change nothing, and answer VALIDATION_ERROR to
\* a caller who may call them (authenticated; for the updates, the owner).
C17_PositivePriceQuantity ==
    [][/\ PricesAndQuantitiesPositive
       /\ PricesAndQuantitiesPositive'
       /\ AnswersInvalid("createListing", "price", PositivePrice) =>
             Refused /\ (response'.user # Null => RefusedAsInvalid)
       /\ AnswersInvalid("updateListing", "price", PositivePrice) =>
             Refused /\ (OwnListing(response') => RefusedAsInvalid)
       /\ AnswersInvalid("createOrder", "quantity", PositiveQuantity) =>
             Refused /\ (response'.user # Null => RefusedAsInvalid)
       /\ AnswersInvalid("updateOrder", "quantity", PositiveQuantity) =>
             Refused /\ (OwnOrder(response') => RefusedAsInvalid)]_vars

\* The owner of an order asked for a quantity below zero and was refused.
C17_Witness ==
    /\ response.op = "updateOrder"
    /\ OwnOrder(response)
    /\ response.args.input.quantity.num < 0
    /\ response.error # Null
    /\ response.error.code = "VALIDATION_ERROR"
    /\ getOrderById(response.args.id).quantity.num > 0

\* --------------------------------------------------------------------- C18
\* The token a caller was authenticated by.
TokenOf(caller) == [payload |-> caller, sig |-> JWT_SECRET]

\* The tokens that were issued and then logged out.
LoggedOut == issued \ sessions

C19_LogoutInvalidates ==
    [][(/\ response = NoResponse
        /\ response'.op \in AuthOps
        /\ response'.user # Null) => TokenOf(response'.user) \in sessions]_vars

\* --------------------------------------------------------------------- C20
\* An output of the hashing step.
IsHash(password) ==
    /\ IsStr(password)
    /\ Len(password.str) > 0
    /\ password.str[1] = "$2a$10$"

\* C20: the password of every stored user is an output of the hashing step,
\* never a string a client supplied as a password.
C20_PasswordsHashed == \A i \in DOMAIN users : IsHash(Get(users[i], "password"))

\* --------------------------------------------------------------------- C21
\* This step answers a request with an error.
AnswersError == response = NoResponse /\ response' # NoResponse /\ response'.error # Null

\* The suspended requests are as they were, but for the one this step
\* answers.
OthersInFlightKept ==
    /\ \A slot \in Slots :
          \/ inflight'[slot] = inflight[slot]
          \/ inflight[slot] # Idle /\ inflight[slot].op = response'.op /\ inflight'[slot] = Idle
    /\ Cardinality({slot \in Slots : inflight'[slot] # inflight[slot]}) <= 1

\* C21: an operation that ends in an error leaves users, listings, orders,
\* the session set and the three id counters as they were, and leaves every
\* other request in flight as it was; an operation that is suspended has
\* written nothing before its await.
C21_ErrorChangesNothing ==
    [][/\ AnswersError =>
             /\ UNCHANGED <<users, listings, orders, sessions,
                            nextUserId, nextListingId, nextOrderId, issued, now>>
             /\ OthersInFlightKept
       /\ (\E slot \in Slots : inflight[slot] = Idle /\ inflight'[slot] # Idle) =>
             UNCHANGED <<users, listings, orders, sessions,
                         nextUserId, nextListingId, nextOrderId, issued, now>>]_vars

\* updateUser resumed after its user was deleted: it ends in an error.
C21_Witness ==
    /\ response.op = "updateUser"
    /\ response.error # Null
    /\ response.error.code = "INTERNAL_ERROR"
    /\ ~Truthy(getUserById(response.args.id))

\* --------------------------------------------------------------------- C22
UserOwnerOps == {"updateUser", "deleteUser"}

\* The entity an operation names by id, and the user who owns it.
Named(op, id) == IF op \in UserOwnerOps THEN getUserById(id) ELSE Resource(op, id)
OwnerOf(op, id) == IF op \in UserOwnerOps THEN id ELSE Named(op, id).userId

\* The input of the operation would fail its validation.
InvalidArgs(op, args) ==
    CASE op = "updateUser" ->
            \/ Truthy(Get(args.input, "username")) /\ Len(args.input.username.str) < 3
            \/ Truthy(Get(args.input, "email")) /\ ~EmailRegexTest(args.input.email)
            \/ Truthy(Get(args.input, "password")) /\ Len(args.input.password.str) < 6
      [] op = "updateListing" ->
            "price" \in DOMAIN args.input /\ ~PositivePrice(args.input.price)
      [] op = "updateOrder" ->
            "quantity" \in DOMAIN args.input /\ ~PositiveQuantity(args.input.quantity)
      [] OTHER -> FALSE

\* The code of the earliest failing check, "" when no check fails, with the
\* checks in the order authentication, existence, ownership, validation.
ExistenceFirst(op, args, caller) ==
    IF caller = Null THEN "UNAUTHENTICATED"
    ELSE IF ~Truthy(Named(op, args.id)) THEN "NOT_FOUND"
    ELSE IF OwnerOf(op, args.id) # caller.id THEN "FORBIDDEN"
    ELSE IF InvalidArgs(op, args) THEN "VALIDATION_ERROR"
    ELSE ""

\* The same with the checks in the order authentication, ownership,
\* existence, validation.
OwnershipFirst(op, args, caller) ==
    IF caller = Null THEN "UNAUTHENTICATED"
    ELSE IF args.id # caller.id THEN "FORBIDDEN"
    ELSE IF ~Truthy(Named(op, args.id)) THEN "NOT_FOUND"
    ELSE IF InvalidArgs(op, args) THEN "VALIDATION_ERROR"
    ELSE ""

\* A step that runs one of the eight operations from its start to an answer
\* or to its await.
RunsOwnerOp ==
    /\ response = NoResponse
    /\ response' # NoResponse
    /\ response'.op \in UserOwnerOps \cup ListingOwnerOps \cup OrderOwnerOps
    /\ inflight' = inflight

\* The answer has the code `expected` when a check fails.
AnsweredWith(expected) ==
    expected # "" => response'.error # Null /\ response'.error.code = expected

CreateOrderTwiceWrong ==
    /\ response = NoResponse
    /\ response'.op = "createOrder"
    /\ response'.user # Null
    /\ ~Truthy(getListingById(response'.args.input.listingId))
    /\ ~PositiveQuantity(response'.args.input.quantity)

\* A failed createOrder creates no order and leaves the counter.
CreateOrderFailureKeeps ==
    (/\ response = NoResponse
     /\ response'.op = "createOrder"
     /\ response'.error # Null) => UNCHANGED <<orders, nextOrderId>>

\* C23 as stated: createOrder checks the listing before the input, so for a
\* missing listing and a quantity that is not valid it answers NOT_FOUND; a
\* failed createOrder creates no order and leaves the counter.
C23_Original ==
    [][/\ CreateOrderTwiceWrong =>
             response'.error # Null /\ response'.error.code = "NOT_FOUND"
       /\ CreateOrderFailureKeeps]_vars

\* C23: createOrder checks the input before the listing, so for a missing
\* listing and a quantity that is not valid it answers VALIDATION_ERROR, and
\* NOT_FOUND for a missing listing and a valid input; a failed createOrder
\* creates no order and leaves the counter.
C23_ValidationFirst ==
    [][/\ CreateOrderTwiceWrong =>
             response'.error # Null /\ response'.error.code = "VALIDATION_ERROR"
       /\ (/\ response = NoResponse
           /\ response'.op = "createOrder"
           /\ response'.user # Null
           /\ ~Truthy(getListingById(response'.args.input.listingId))
           /\ PositiveQuantity(response'.args.input.quantity)) =>
             response'.error # Null /\ response'.error.code = "NOT_FOUND"
       /\ CreateOrderFailureKeeps]_vars

\* createOrder for no listing and a quantity below zero was refused for the
\* quantity.
C23_Witness ==
    /\ response.op = "createOrder"
    /\ response.user # Null
    /\ ~Truthy(getListingById(response.args.input.listingId))
    /\ response.args.input.quantity.num < 0
    /\ response.error # Null
    /\ response.error.code = "VALIDATION_ERROR"

\* --------------------------------------------------------------------- C24
\* The filter of a listings query has the field.
Supplied(filter, field) == filter # Undefined /\ field \in DOMAIN filter

\* The filter has the field, with a value other than the empty string.
SuppliedText(filter, field) == Supplied(filter, field) /\ filter[field] # EmptyString

\* The term is part of the title or of the description, whatever the case
\* of the letters.
Found(item, term) ==
    \E text \in {item.title, item.description} :
        Includes(ToLowerCase(text.str), ToLowerCase(term.str))

\* The listing is within the price bounds the filter has.
InPriceBounds(item, filter) ==
    /\ Supplied(filter, "priceMin") => item.price.num >= filter.priceMin.num
    /\ Supplied(filter, "priceMax") => item.price.num <= filter.priceMax.num

\* The answer of a listings query is the stored listings, in their order,
\* that satisfy Matches, and the query writes nothing.
ListingsAnswer(Matches(_, _)) ==
    response = NoResponse /\ response'.op = "listings" =>
        LET Wanted(item) == Matches(item, response'.args.filter)
        IN /\ response'.error = Null
           /\ response'.data = Arr(SelectSeq(listings, Wanted))
           /\ UNCHANGED <<store, issued, inflight>>

\* Every field the filter has is a constraint.
MatchesSupplied(item, filter) ==
    /\ Supplied(filter, "search") => Found(item, filter.search)
    /\ InPriceBounds(item, filter)
    /\ Supplied(filter, "category") => item.category = filter.category
    /\ Supplied(filter, "condition") => item.condition = filter.condition

\* A search term, category or condition that is the empty string is no
\* constraint.
MatchesNonEmpty(item, filter) ==
    /\ SuppliedText(filter, "search") => Found(item, filter.search)
    /\ InPriceBounds(item, filter)
    /\ SuppliedText(filter, "category") => item.category = filter.category
    /\ SuppliedText(filter, "condition") => item.condition = filter.condition

\* C24 as stated: listings(filter) returns, in insertion order, exactly the
\* listings that satisfy every field the filter has: search in title or
\* description whatever the case, priceMin and priceMax inclusive, category
\* and condition equal; it writes nothing.
C24_Original == [][ListingsAnswer(MatchesSupplied)]_vars

\* C24: the same, where a field that is omitted, and a search, category or
\* condition that is the empty string, is no constraint.
C24_ListingsFilter == [][ListingsAnswer(MatchesNonEmpty)]_vars

\* A query for a price range and a category returned one listing of several:
\* the one at the upper bound.
C24_Witness ==
    /\ response.op = "listings"
    /\ Supplied(response.args.filter, "priceMin")
    /\ Supplied(response.args.filter, "priceMax")
    /\ Supplied(response.args.filter, "category")
    /\ Len(listings) > 1
    /\ Len(response.data.arr) = 1
    /\ response.data.arr[1].price = response.args.filter.priceMax

\* --------------------------------------------------------------------- C25
\* No record of the collection has the id.
Absent(coll, id) == \A i \in DOMAIN coll : coll[i].id # id

\* delete(id) answered `ret` and left `after` of the collection `coll`: a
\* miss is answered false and changes nothing, a hit takes out the one
\* record and keeps the others in their order.
DeleteTouchesOne(coll, after, ret, id) ==
    LET Other(record) == record.id # id
    IN IF Absent(coll, id)
       THEN ret = FALSE /\ after = coll
       ELSE ret = TRUE /\ after = SelectSeq(coll, Other) /\ Len(after) = Len(coll) - 1

\* update(id, fields) answered `ret` and left `after` of the collection
\* `coll`: a miss is answered null and changes nothing, a hit puts
\* Merged(old record) in the place of the one record and keeps the others.
UpdateTouchesOne(coll, after, ret, id, Merged(_)) ==
    IF Absent(coll, id)
    THEN ret = Null /\ after = coll
    ELSE /\ Len(after) = Len(coll)
         /\ \A i \in DOMAIN coll :
               after[i] = IF coll[i].id = id THEN Merged(coll[i]) ELSE coll[i]
         /\ \E i \in DOMAIN coll : coll[i].id = id /\ ret = after[i]

\* The update and delete of the three collections, on every id and with
\* fields of each kind.
StoreTouchesOne(Merged(_, _)) ==
    \A id \in IdArgs :
        /\ LET fields == [username |-> AbName]
               M(old) == Merged(old, fields)
               updated == DataStore_updateUser(id, fields)
           IN UpdateTouchesOne(users, updated.users, updated.ret, id, M)
        /\ LET fields == [price |-> Num(2500)]
               M(old) == Merged(old, fields)
               updated == DataStore_updateListing(id, fields)
           IN UpdateTouchesOne(listings, updated.listings, updated.ret, id, M)
        /\ LET fields == [quantity |-> Num(3), totalPrice |-> Num(7500)]
               M(old) == Merged(old, fields)
               updated == DataStore_updateOrder(id, fields)
           IN UpdateTouchesOne(orders, updated.orders, updated.ret, id, M)
        /\ LET deleted == DataStore_deleteUser(id)
           IN DeleteTouchesOne(users, deleted.users, deleted.ret, id)
        /\ LET deleted == DataStore_deleteListing(id)
           IN DeleteTouchesOne(listings, deleted.listings, deleted.ret, id)
        /\ LET deleted == DataStore_deleteOrder(id)
           IN DeleteTouchesOne(orders, deleted.orders, deleted.ret, id)

ShallowMerge(old, fields) == Merge(old, fields)
StampedMerge(old, fields) == Merge(Merge(old, fields), [updatedAt |-> Date(now)])

\* C25 as stated: update and delete on an id that is not present answer
\* null and false and change nothing; a delete takes out the one record; an
\* update puts the shallow merge of the old record and the fields in its
\* place.
C25_Original == StoreTouchesOne(ShallowMerge)

\* C25: the same, where an update puts in place the shallow merge of the old
\* record and the fields with updatedAt set to the time of the call.
C25_TouchesOne == StoreTouchesOne(StampedMerge)

\* A listing was updated half a day after it was made, and the other
\* listings are as they were made.
C25_Witness ==
    /\ response.op = "updateListing"
    /\ response.error = Null
    /\ response.data.updatedAt = Date(now)
    /\ response.data.createdAt # Date(now)
    /\ Len(listings) > 1
    /\ \A i \in DOMAIN listings :
          listings[i].id # response.args.id => listings[i].updatedAt = listings[i].createdAt
    /\ \E i \in DOMAIN listings : listings[i] = response.data

\* --------------------------------------------------------------------- C26
\* The nested user field of a listing or an order.
NestedUserOps == {"Listing.user", "Order.user"}

\* C26: a successful deleteUser(u) takes the user u out of the users and
\* leaves every listing and order, those of u included, and the session set
\* as they were; the nested user field of a listing or order whose user is
\* not in the store resolves to null, without an error.
C26_NoCascade ==
    [][/\ (/\ response = NoResponse
           /\ response'.op = "deleteUser"
           /\ response'.error = Null) =>
             LET Other(record) == record.id # response'.args.id
             IN /\ users' = SelectSeq(users, Other)
                /\ Len(users') = Len(users) - 1
                /\ UNCHANGED <<listings, orders, sessions,
                               nextUserId, nextListingId, nextOrderId>>
       /\ (response = NoResponse /\ response'.op \in NestedUserOps) =>
             /\ response'.error = Null
             /\ UNCHANGED <<store, issued, inflight>>
             /\ Absent(users, response'.args.parent.userId) => response'.data = Null
             /\ ~Absent(users, response'.args.parent.userId) =>
                   /\ response'.data # Null
                   /\ response'.data.id = response'.args.parent.userId]_vars

\* The user field of a stored listing whose user was deleted resolved to
\* null.
C26_Witness ==
    /\ response.op = "Listing.user"
    /\ response.error = Null
    /\ response.data = Null
    /\ \E i \in DOMAIN listings : listings[i] = response.args.parent
    /\ Absent(users, response.args.parent.userId)

\* --------------------------------------------------------------------- C27
\* C27: the token and the user record a successful login returns describe a
\* user as stored at the moment login returns: a stored user has the id, the
\* email and the username of the token, and is the record returned.
C27_LoginDescribesStoredUser ==
    response.op = "login" /\ response.error = Null =>
        \E i \in DOMAIN users :
            /\ users[i].id = response.data.token.payload.id
            /\ users[i].email = response.data.token.payload.email
            /\ users[i].username = response.data.token.payload.username
            /\ Without(users[i], "password") = response.data.user

\* --------------------------------------------------------------------- C28
\* C28: an operation that needs a caller succeeds only for a caller who is a
\* stored user at that moment, so a listing or an order is created with the
\* userId of a stored user; the token of a deleted user creates nothing.
C28_CallerIsStored ==
    [][/\ (/\ response = NoResponse
           /\ response'.op \in AuthOps
           /\ response'.error = Null) => ~Absent(users, response'.user.id)
       /\ \A i \in DOMAIN listings' :
             Absent(listings, listings'[i].id) => ~Absent(users, listings'[i].userId)
       /\ \A i \in DOMAIN orders' :
             Absent(orders, orders'[i].id) => ~Absent(users, orders'[i].userId)]_vars

\* --------------------------------------------------------------------- C29
\* C29: every stored user has a username of at least 3 characters and an
\* email of the shape local@domain.tld: updateUser stores no username or
\* email that createUser refuses.
C29_UsersWellFormed ==
    \A i \in DOMAIN users :
        /\ IsStr(users[i].username)
        /\ Len(users[i].username.str) >= 3
        /\ IsStr(users[i].email)
        /\ EmailRegexTest(users[i].email)

====
